---- MODULE Spec2Model ----
(***************************************************************************)
(* A model of the review-scraping pipeline of Amalyze:                     *)
(*   reviews_scraper.py  ReviewScraper (scrape_reviews, _scrape_single_page,*)
(*                       _extract_reviews_from_page)                       *)
(*   utils.py            make_request_with_backoff, extract_product_id     *)
(*   app.py              the caller of scrape_reviews, the login tab       *)
(*   product_scraper.py  ProductScraper._extract_product_info              *)
(*   browser.py          save_cookies                                      *)
(*                                                                         *)
(* Spec      one call of scrape_reviews on a fresh ReviewScraper: the main *)
(*           thread, the pool's worker threads, the semaphore, the two     *)
(*           request counters and the reviews queue.                       *)
(* SpecFetch one call of make_request_with_backoff, statement by statement.*)
(* SpecGrid  the task list of scrape_reviews and its submission.           *)
(* SpecExtract two calls of _extract_reviews_from_page on one page, with   *)
(*           the fields of a review and the clock.                         *)
(* SpecProduct one call of ProductScraper._extract_product_info.           *)
(* SpecLive  Spec under fair scheduling of the main thread and the workers.*)
(* SpecOrder the tasks of a run against a site whose pages are fixed, with *)
(*           the capture time of each record.                              *)
(* SpecDelay the tasks of a run of one worker with up to three pages per   *)
(*           star rating.                                                  *)
(* SpecRerun two calls of scrape_reviews on one ReviewScraper.             *)
(* SpecLogin the login tab of the dashboard (app.py, browser.py).          *)
(***************************************************************************)
EXTENDS Integers, Sequences, FiniteSets, TLC

\* ------------------------------------------------------------------ bounds
\* the largest max_threads a ReviewScraper is constructed with in Spec
MaxThreads == 2
\* the largest max_pages_per_star scrape_reviews is called with in Spec
MaxPages == 1
\* the largest number of review elements on one fetched page
MaxReviews == 1
\* the largest max_retries make_request_with_backoff is called with in SpecFetch
MaxRetriesBound == 4
\* the largest max_pages_per_star in SpecGrid
MaxGridPages == 6
\* the largest number of review elements of the page in SpecExtract
MaxElems == 2
\* the last tick of the clock
MaxClock == 3
\* the largest number of pages per star rating in SpecDelay
MaxDelayPages == 3
\* the calls of scrape_reviews on one instance in SpecRerun
MaxCalls == 2

\* ------------------------------------------------------- program constants
\* range(5, 0, -1): the star ratings run from 5 down to 1
TopStar == 5
\* make_request_with_backoff(url, session=None, max_retries=3)
DefaultMaxRetries == 3
\* if page_number <= 2: the pages that get the additional delay
LastDelayedPage == 2
\* if response.status_code == 200
HttpOk == 200

None == "None"

VARIABLES
    \* ---- inputs of the run
    max_threads,          \* ReviewScraper.max_threads (and the semaphore's capacity)
    max_pages_per_star,   \* argument of scrape_reviews
    product_url,          \* argument of scrape_reviews
    session,              \* ReviewScraper.session
    site,                 \* what the site serves for each task while the run
                          \* lasts (SpecOrder; NoSite where it is left open)
    \* ---- ReviewScraper fields
    semaphore,            \* value of self.semaphore
    reviews_queue,        \* self.reviews_queue, a FIFO of records
    total_reviews,        \* self.total_reviews
    successful_requests,  \* self.successful_requests
    failed_requests,      \* self.failed_requests
    \* ---- scrape_reviews (the main thread)
    pc,                   \* position of the main thread
    canary_retry,         \* retry of the canary call while it runs (0 outside it)
    test_response,        \* the canary call's result: "unset", None, or what the
                          \* marker check finds in its text ("soft", "clean")
    scrape_tasks,         \* the list scrape_tasks
    submitted,            \* number of tasks handed to executor.submit so far
    taken,                \* number of work items the pool's workers have taken
    finished,             \* number of futures that are done
    reviews,              \* the local list reviews of the drain loop
    df,                   \* the table scrape_reviews returns
    exit_line,            \* the line of the return statement taken (0: none yet)
    \* ---- the worker threads of the pool
    wk,                   \* wk[w]: the locals of worker w in _scrape_single_page
                          \* (retry: of its call of make_request_with_backoff;
                          \* kind: how its fetch ended; f_inc, s_inc: the
                          \* increments of failed_requests and of
                          \* successful_requests its task has executed)
    \* ---- history of the run
    fetch_calls,          \* calls of make_request_with_backoff so far
    tally,                \* how the finished tasks ended, by kind
    returned_sum,         \* sum of the review counts the finished tasks returned
    put_log,              \* every record put into reviews_queue, in put order
    \* ---- one call of make_request_with_backoff (SpecFetch)
    f_pc, f_max, f_retry, f_log, f_result,
    \* ---- calls of _extract_reviews_from_page on one page (SpecExtract)
    x_pc,                 \* position in the call ("off" outside SpecExtract)
    x_page,               \* review_elements: what soup.select finds in html_content
    x_star,               \* the argument star_rating
    x_now,                \* the clock datetime.now() reads, in ticks
    x_i,                  \* index of the element the loop is at
    x_count,              \* the local count
    x_call,               \* which call on this page runs: the first or the second
    x_counts,             \* what the calls that ended have returned
    \* ---- one call of ProductScraper._extract_product_info (SpecProduct)
    p_pc,                 \* position in the call ("off" outside SpecProduct)
    p_page,               \* what the selectors find in html_content
    p_info,               \* the dict product_info the call returns
    \* ---- the calls of scrape_reviews on one instance (SpecRerun)
    calls,                \* which call of scrape_reviews this is
    carried,              \* successful_requests + failed_requests when it began
    \* ---- the dashboard's login tab (SpecLogin)
    st_session_state,     \* st.session_state: browser_open, driver, amazon_cookies
    chrome,               \* the Chrome window of the driver and its cookies
    cookies_json,         \* the file cookies.json
    l_event,              \* what the last run of the script did
    l_saved               \* whether a confirmation has saved the cookies

productVars == <<p_pc, p_page, p_info>>
callVars == <<calls, carried>>
loginVars == <<st_session_state, chrome, cookies_json, l_event, l_saved>>
runVars == <<max_threads, max_pages_per_star, product_url, session, site, productVars, callVars, loginVars, semaphore,
             reviews_queue, total_reviews, successful_requests, failed_requests,
             pc, canary_retry, test_response, scrape_tasks, submitted, taken,
             finished, reviews, df, exit_line, wk, fetch_calls, tally, returned_sum,
             put_log>>
fetchVars == <<f_pc, f_max, f_retry, f_log, f_result>>
extractVars == <<x_pc, x_page, x_star, x_now, x_i, x_count, x_call, x_counts>>
vars == <<runVars, fetchVars, extractVars>>

\* ------------------------------------------------------------ the inputs
\* A URL is its sequence of path segments; AsinSegments are the segments that
\* start with ten characters of [A-Z0-9].
AsinSegments == {"B0ABCDE123"}
\* a product page, a page that is no product page, a /dp/ segment followed by
\* something that is no product id, a /gp/ segment without /product/
ProductUrls ==
    { <<"dp", "B0ABCDE123">>, <<"review", "B0ABCDE123">>, <<"dp", "b0abc">>,
      <<"gp", "B0ABCDE123">> }

\* re.search(r'/<prefix>/([A-Z0-9]{10})', url): the id after the first place the
\* prefix segments are followed by an ASIN segment, None when there is none
SearchPattern(prefix, url) ==
    LET n == Len(prefix)
        hits == {i \in 1..Len(url) :
                    /\ i + n <= Len(url)
                    /\ \A j \in 1..n : url[i + j - 1] = prefix[j]
                    /\ url[i + n] \in AsinSegments}
    IN  IF hits = {} THEN None
        ELSE url[(CHOOSE i \in hits : \A k \in hits : i <= k) + n]

\* patterns that take whatever follows /dp/ or /product/ for the id
ExtractProductIdAnyId(url) ==
    LET hits == {i \in 1..(Len(url) - 1) : url[i] \in {"dp", "product"}}
    IN  IF hits = {} THEN None
        ELSE url[(CHOOSE i \in hits : \A k \in hits : i <= k) + 1]
\* utils.extract_product_id: the patterns are tried in list order
ExtractProductId(url) ==
    IF SearchPattern(<<"dp">>, url) # None THEN SearchPattern(<<"dp">>, url)
    ELSE IF SearchPattern(<<"product">>, url) # None
         THEN SearchPattern(<<"product">>, url)
    ELSE SearchPattern(<<"gp", "product">>, url)

\* ------------------------------------------------ what session.get can do
\* The elements a page's [data-hook='review'] selector yields: "good" parses,
\* "bad" raises while it is parsed.
ElemKinds == {"good", "bad"}
RECURSIVE SeqsUpTo(_, _)
SeqsUpTo(S, n) ==
    IF n = 0 THEN {<<>>}
    ELSE SeqsUpTo(S, n - 1) \cup
         {Append(q, x) : q \in {r \in SeqsUpTo(S, n - 1) : Len(r) = n - 1}, x \in S}
PageElems == SeqsUpTo(ElemKinds, MaxReviews)

\* One session.get(url, timeout=10): a response (status, whether the body holds a
\* login-wall or captcha marker, the review elements of the body), a
\* requests.RequestException, or an exception of another type.
GetOutcomes ==
    [kind : {"response"}, status : {HttpOk}, soft : BOOLEAN, elems : PageElems]
    \cup {[kind |-> "response", status |-> 503, soft |-> FALSE, elems |-> <<>>],
          [kind |-> "request_exc", status |-> 0, soft |-> FALSE, elems |-> <<>>],
          [kind |-> "other_exc", status |-> 0, soft |-> FALSE, elems |-> <<>>]}

\* what the call holds while it has no response: it returns None
NoResponse == [kind |-> "none", status |-> 0, soft |-> FALSE, elems |-> <<>>]

\* response.status_code == 200
IsSuccess(o) == o.kind = "response" /\ o.status = HttpOk
\* what the try block of the loop lets through: an exception that is not a
\* requests.RequestException
Escapes(o) == o.kind = "other_exc"
\* a loop that runs once more than max_retries allows
LoopGuardInclusive(retry, max) == retry <= max
\* while retry < max_retries
LoopGuard(retry, max) == retry < max
\* a wait computed before retry is incremented
BackoffBeforeIncrement(retry) == 2 ^ (retry - 1)
\* wait_time = 2 ** retry + random.uniform(0, 1), without the uniform part
BackoffWait(retry) == 2 ^ retry

\* a marker check that is never made
IsSoftBlockedNever(o) == FALSE
\* "Sign in to continue" in text or "Type the characters ..." in text
IsSoftBlocked(o) == o.soft

\* One iteration of the loop of make_request_with_backoff, entered with
\* retry < max, for the outcome o of its session.get: the call returns the
\* response, or raises, or backs off and then either loops or returns None.
FetchIteration(retry, max, o) ==
    IF IsSuccess(o)
    THEN [state |-> "returned", retry |-> retry, response |-> o]
    ELSE IF Escapes(o)
    THEN [state |-> "raised", retry |-> retry, response |-> o]
    ELSE IF LoopGuard(retry + 1, max)
    THEN [state |-> "looping", retry |-> retry + 1, response |-> o]
    ELSE [state |-> "none", retry |-> retry + 1, response |-> o]

\* ------------------------------------------------------- the task list
\* range(1, max_pages_per_star): the last page is left out
PageLoopExclusive(star, n) == [p \in 1..(n - 1) |-> <<star, p>>]
\* for page_number in range(1, max_pages_per_star + 1)
PageLoop(star, n) == [p \in 1..n |-> <<star, p>>]
\* for star_rating in range(5, 0, -1)
RECURSIVE StarLoop(_, _)
StarLoop(star, n) ==
    IF star > 0 THEN PageLoop(star, n) \o StarLoop(star - 1, n) ELSE <<>>
ScrapeTasks(n) == StarLoop(TopStar, n)

\* -------------------------------------------------------------- workers
\* A pool with one thread more than the semaphore has units.
WorkersOversized == 1..(max_threads + 1)
\* line 84: ThreadPoolExecutor(max_workers=self.max_threads)
Workers == 1..max_threads
IdleWorker ==
    [pc |-> "idle", task |-> 0, retry |-> 0, reg |-> 0, elems |-> <<>>,
     idx |-> 0, count |-> 0, kind |-> "none", f_inc |-> 0, s_inc |-> 0]
StarOf(w) == scrape_tasks[wk[w].task][1]
PageOf(w) == scrape_tasks[wk[w].task][2]

\* the positions between the semaphore's acquire and its release
InSection(w) == wk[w].pc \notin {"idle", "acquire"}
InFlight == Cardinality({w \in Workers : InSection(w)})
Fetching == Cardinality({w \in Workers : wk[w].pc = "fetch"})

\* Semaphore.acquire blocks while the value is 0
CanAcquire(s) == s > 0
Acquired(s) == s - 1
\* a unit released twice
ReleasedTwice(s) == s + 2
\* Semaphore.release
Released(s) == s + 1
\* an acquire and a release written as two statements around the body: a task
\* that raises skips the release
ExitReleaseOnReturnOnly(s, kind) == IF kind = "raised" THEN s ELSE Released(s)
\* the end of "with self.semaphore:": __exit__ releases however the body ended
ExitRelease(s, kind) == Released(s)

\* an append without the mutex: a concurrent put overwrites the last record
QueuePutLossy(q, r) == IF Len(q) = 0 THEN <<r>> ELSE [q EXCEPT ![Len(q)] = r]
\* Queue.put and Queue.get(block=False): a FIFO under the queue's own mutex
QueuePut(q, r) == Append(q, r)
\* a get that hands out the newest record and removes the oldest
QueueHeadNewest(q) == q[Len(q)]
\* Queue.get(block=False): the oldest record
QueueHead(q) == Head(q)
QueueRest(q) == Tail(q)
\* Queue.empty()
QueueEmpty(q) == Len(q) = 0

\* review_data of the i-th element of the page of task (star, page)
ReviewData(star, page, i) == <<star, page, i>>

\* ================================================================ Spec
TallyKinds == {"none", "soft", "ok", "raised"}

\* the variables of SpecFetch, at rest
FetchOff ==
    /\ f_pc = "off" /\ f_max = 0 /\ f_retry = 0 /\ f_log = <<>>
    /\ f_result = NoResponse

\* the variables of SpecExtract, at rest, and the clock at its start
ExtractOff ==
    /\ x_pc = "off" /\ x_page = <<>> /\ x_star = 0 /\ x_now = 0
    /\ x_i = 0 /\ x_count = 0 /\ x_call = 0 /\ x_counts = <<>>

\* the variables of SpecProduct, at rest
ProductOff == p_pc = "off" /\ p_page = <<>> /\ p_info = <<>>

\* the first call of scrape_reviews on a new instance
FirstCall == calls = 1 /\ carried = 0

\* the variables of SpecLogin, at rest
LoginOff ==
    /\ st_session_state = <<>> /\ chrome = <<>> /\ cookies_json = <<>>
    /\ l_event = "off" /\ l_saved = FALSE

\* the site's pages are not fixed: every GET may be answered in any way
NoSite == <<>>

\* ReviewScraper.__init__ and the arguments of scrape_reviews
Constructed ==
    /\ semaphore = max_threads
    /\ reviews_queue = <<>>
    /\ total_reviews = 0
    /\ successful_requests = 0
    /\ failed_requests = 0
    /\ canary_retry = 0
    /\ test_response = "unset"
    /\ scrape_tasks = <<>>
    /\ submitted = 0 /\ taken = 0 /\ finished = 0
    /\ reviews = <<>>
    /\ df = <<>>
    /\ exit_line = 0
    /\ wk = [w \in Workers |-> IdleWorker]
    /\ fetch_calls = 0
    /\ tally = [k \in TallyKinds |-> 0]
    /\ returned_sum = 0
    /\ put_log = <<>>

Init ==
    /\ max_threads \in 1..MaxThreads
    /\ max_pages_per_star \in 1..MaxPages
    /\ product_url \in ProductUrls
    /\ session \in {"session", None}
    /\ site = NoSite
    /\ ProductOff
    /\ FirstCall
    /\ LoginOff
    /\ pc = "start"
    /\ Constructed
    /\ FetchOff
    /\ ExtractOff

\* return pd.DataFrame() at the given line
ReturnEmpty(line) ==
    /\ pc' = "done"
    /\ df' = <<>>
    /\ exit_line' = line

\* scrape_reviews, lines 51-65: the product id, the session, the canary call
Start ==
    /\ pc = "start"
    /\ IF ExtractProductId(product_url) = None
       THEN ReturnEmpty(54) /\ UNCHANGED fetch_calls
       ELSE IF session = None
       THEN ReturnEmpty(61) /\ UNCHANGED fetch_calls
       ELSE /\ pc' = "canary"
            /\ fetch_calls' = fetch_calls + 1
            /\ UNCHANGED <<df, exit_line>>
    /\ UNCHANGED <<test_response, max_threads, max_pages_per_star, product_url, session, site, productVars, callVars, loginVars,
                   semaphore,
                   reviews_queue, total_reviews, successful_requests,
                   failed_requests, canary_retry, scrape_tasks, submitted, taken,
                   finished, reviews, wk, tally, returned_sum, put_log>>
    /\ UNCHANGED <<fetchVars, extractVars>>

\* scrape_reviews, lines 65-75: one iteration of the canary call's loop and,
\* when the call returns, the two checks on test_response
CanaryAttempt ==
    /\ pc = "canary"
    /\ \E o \in GetOutcomes :
         LET r == FetchIteration(canary_retry, DefaultMaxRetries, o)
         IN  CASE r.state = "looping" ->
                    /\ canary_retry' = r.retry
                    /\ UNCHANGED <<pc, df, exit_line, test_response>>
               [] r.state = "none" ->
                    /\ canary_retry' = 0
                    /\ test_response' = None
                    /\ ReturnEmpty(68)
               [] r.state = "raised" ->
                    /\ pc' = "raised"
                    /\ canary_retry' = 0
                    /\ UNCHANGED <<df, exit_line, test_response>>
               [] r.state = "returned" ->
                    /\ canary_retry' = 0
                    /\ test_response' = IF r.response.soft THEN "soft" ELSE "clean"
                    /\ IF IsSoftBlocked(r.response)
                       THEN ReturnEmpty(73)
                       ELSE pc' = "build" /\ UNCHANGED <<df, exit_line>>
    /\ UNCHANGED <<max_threads, max_pages_per_star, product_url, session, site, productVars, callVars, loginVars,
                   semaphore,
                   reviews_queue, total_reviews, successful_requests,
                   failed_requests, scrape_tasks, submitted, taken, finished,
                   reviews, wk, fetch_calls, tally, returned_sum,
                   put_log>>
    /\ UNCHANGED <<fetchVars, extractVars>>

\* scrape_reviews, lines 77-81
BuildTasks ==
    /\ pc = "build"
    /\ scrape_tasks' = ScrapeTasks(max_pages_per_star)
    /\ pc' = "submit"
    /\ UNCHANGED <<test_response, max_threads, max_pages_per_star, product_url, session, site, productVars, callVars, loginVars,
                   semaphore,
                   reviews_queue, total_reviews, successful_requests,
                   failed_requests, canary_retry, submitted, taken, finished,
                   reviews, df, exit_line, wk, fetch_calls, tally,
                   returned_sum, put_log>>
    /\ UNCHANGED <<fetchVars, extractVars>>

\* scrape_reviews, lines 85-93: executor.submit of the next task of the list;
\* after the last one the main thread waits in as_completed
Submit ==
    /\ pc = "submit"
    /\ submitted < Len(scrape_tasks)
    /\ submitted' = submitted + 1
    /\ pc' = IF submitted + 1 = Len(scrape_tasks) THEN "collect" ELSE "submit"
    /\ UNCHANGED <<test_response, max_threads, max_pages_per_star, product_url, session, site, productVars, callVars, loginVars,
                   semaphore,
                   reviews_queue, total_reviews, successful_requests,
                   failed_requests, canary_retry, scrape_tasks, taken, finished,
                   reviews, df, exit_line, wk, fetch_calls, tally,
                   returned_sum, put_log>>
    /\ UNCHANGED <<fetchVars, extractVars>>

\* a future.result() outside any try block: the task's exception is raised
\* again in the main thread
ResultRaisesUncaught(raised) == raised > 0
\* lines 98-102: future.result() is called in a try block whose except clause
\* catches Exception and logs it, so the exception of a task ends there
ResultRaises(raised) == FALSE

\* a main thread that goes on as soon as one future is done
SomeFutureDone == finished >= 1
\* lines 96-102: the loop over as_completed(futures) ends when every future of
\* the dict is done, and the with block of the executor when it has shut down
AllFuturesDone == finished = Len(scrape_tasks)

\* scrape_reviews, lines 96-105: as_completed has yielded every future (a
\* future that raised is caught and logged), the executor has shut down
AsCompleted ==
    /\ pc = "collect"
    /\ AllFuturesDone
    /\ reviews' = <<>>
    /\ pc' = IF ResultRaises(tally["raised"]) THEN "raised" ELSE "drain"
    /\ UNCHANGED <<test_response, max_threads, max_pages_per_star, product_url, session, site, productVars, callVars, loginVars,
                   semaphore,
                   reviews_queue, total_reviews, successful_requests,
                   failed_requests, canary_retry, scrape_tasks, submitted, taken,
                   finished, df, exit_line, wk, fetch_calls, tally,
                   returned_sum, put_log>>
    /\ UNCHANGED <<fetchVars, extractVars>>

\* scrape_reviews, lines 106-110: one turn of the drain loop
DrainGet ==
    /\ pc = "drain"
    /\ ~QueueEmpty(reviews_queue)
    /\ reviews' = Append(reviews, QueueHead(reviews_queue))
    /\ reviews_queue' = QueueRest(reviews_queue)
    /\ UNCHANGED <<test_response, max_threads, max_pages_per_star, product_url, session, site, productVars, callVars, loginVars,
                   semaphore,
                   total_reviews, successful_requests, failed_requests,
                   canary_retry, scrape_tasks, submitted, taken, finished, df,
                   exit_line, wk, fetch_calls, tally, returned_sum,
                   put_log, pc>>
    /\ UNCHANGED <<fetchVars, extractVars>>

\* scrape_reviews, lines 106 and 112-125: the queue is empty, the table is
\* built from reviews and returned
Return ==
    /\ pc = "drain"
    /\ QueueEmpty(reviews_queue)
    /\ df' = reviews
    /\ exit_line' = 125
    /\ pc' = "done"
    /\ UNCHANGED <<test_response, max_threads, max_pages_per_star, product_url, session, site, productVars, callVars, loginVars,
                   semaphore,
                   reviews_queue, total_reviews, successful_requests,
                   failed_requests, canary_retry, scrape_tasks, submitted, taken,
                   finished, reviews, wk, fetch_calls, tally,
                   returned_sum, put_log>>
    /\ UNCHANGED <<fetchVars, extractVars>>

\* ------------------------------------------------- _scrape_single_page
inputVars == <<max_threads, max_pages_per_star, product_url, session, site, productVars, callVars, loginVars>>
mainVars == <<pc, canary_retry, test_response, scrape_tasks, submitted, reviews, df, exit_line,
              total_reviews>>

\* self.x += 1 is a load of the attribute, an add and a store
CounterLoad(counter) == counter
CounterStore(reg) == reg + 1

\* a pool worker takes the oldest work item and calls _scrape_single_page
Take(w) ==
    /\ wk[w].pc = "idle"
    /\ taken < submitted
    /\ taken' = taken + 1
    /\ wk' = [wk EXCEPT ![w] = [IdleWorker EXCEPT !.pc = "acquire",
                                                   !.task = taken + 1]]
    /\ UNCHANGED <<inputVars, mainVars, semaphore, reviews_queue,
                   successful_requests, failed_requests, finished, fetch_calls, tally, returned_sum, put_log>>
    /\ UNCHANGED <<fetchVars, extractVars>>

\* An additional delay taken before the first page of a star rating only.
ExtraDelayFirstPageOnly(page_number) == page_number < LastDelayedPage

\* line 146: if page_number <= 2
ExtraDelay(page_number) == page_number <= LastDelayedPage

\* line 138: with self.semaphore; a page after the second goes on to call
\* make_request_with_backoff (line 149)
Acquire(w) ==
    /\ wk[w].pc = "acquire"
    /\ CanAcquire(semaphore)
    /\ semaphore' = Acquired(semaphore)
    /\ IF ExtraDelay(PageOf(w))
       THEN /\ wk' = [wk EXCEPT ![w].pc = "delay"]
            /\ UNCHANGED fetch_calls
       ELSE /\ wk' = [wk EXCEPT ![w].pc = "fetch"]
            /\ fetch_calls' = fetch_calls + 1
    /\ UNCHANGED <<inputVars, mainVars, reviews_queue, successful_requests,
                   failed_requests, taken, finished, tally,
                   returned_sum, put_log>>
    /\ UNCHANGED <<fetchVars, extractVars>>

\* lines 146-149: time.sleep(2.0 + get_random_delay()), then the call of
\* make_request_with_backoff
Delay(w) ==
    /\ wk[w].pc = "delay"
    /\ wk' = [wk EXCEPT ![w].pc = "fetch"]
    /\ fetch_calls' = fetch_calls + 1
    /\ UNCHANGED <<inputVars, mainVars, semaphore, reviews_queue,
                   successful_requests, failed_requests, taken, finished, tally, returned_sum, put_log>>
    /\ UNCHANGED <<fetchVars, extractVars>>

\* a marker check that sends the task back into the fetch instead of failing it
AfterFetchRetriesSoft(w, r) ==
    CASE r.state = "looping" -> [wk[w] EXCEPT !.retry = r.retry]
      [] r.state = "none" ->
            [wk[w] EXCEPT !.retry = 0, !.pc = "fail_load", !.kind = "none"]
      [] r.state = "raised" ->
            [wk[w] EXCEPT !.retry = 0, !.pc = "exit", !.kind = "raised"]
      [] r.state = "returned" ->
            IF IsSoftBlocked(r.response)
            THEN [wk[w] EXCEPT !.retry = 0, !.kind = "soft",
                               !.elems = r.response.elems]
            ELSE [wk[w] EXCEPT !.retry = 0, !.pc = "succ_load", !.kind = "ok",
                               !.elems = r.response.elems]
\* where the task goes when make_request_with_backoff has ended in r
\* (lines 150, 156): the failure counter, the success counter, or out; elems is
\* what response.text holds, read only by _extract_reviews_from_page
AfterFetch(w, r) ==
    CASE r.state = "looping" -> [wk[w] EXCEPT !.retry = r.retry]
      [] r.state = "none" ->
            [wk[w] EXCEPT !.retry = 0, !.pc = "fail_load", !.kind = "none"]
      [] r.state = "raised" ->
            [wk[w] EXCEPT !.retry = 0, !.pc = "exit", !.kind = "raised"]
      [] r.state = "returned" ->
            IF IsSoftBlocked(r.response)
            THEN [wk[w] EXCEPT !.retry = 0, !.pc = "fail_load", !.kind = "soft",
                               !.elems = r.response.elems]
            ELSE [wk[w] EXCEPT !.retry = 0, !.pc = "succ_load", !.kind = "ok",
                               !.elems = r.response.elems]

\* line 149: one iteration of the loop of make_request_with_backoff
Attempt(w) ==
    /\ wk[w].pc = "fetch"
    /\ \E o \in GetOutcomes :
         wk' = [wk EXCEPT ![w] =
                  AfterFetch(w, FetchIteration(wk[w].retry, DefaultMaxRetries, o))]
    /\ UNCHANGED <<inputVars, mainVars, semaphore, reviews_queue,
                   successful_requests, failed_requests, taken, finished,
                   fetch_calls, tally, returned_sum, put_log>>
    /\ UNCHANGED <<fetchVars, extractVars>>

\* lines 151 and 158: self.failed_requests += 1, the load
FailLoad(w) ==
    /\ wk[w].pc = "fail_load"
    /\ wk' = [wk EXCEPT ![w].reg = CounterLoad(failed_requests),
                        ![w].pc = "fail_store"]
    /\ UNCHANGED <<inputVars, mainVars, semaphore, reviews_queue,
                   successful_requests, failed_requests, taken, finished,
                   fetch_calls, tally, returned_sum, put_log>>
    /\ UNCHANGED <<fetchVars, extractVars>>

\* lines 151-153 and 158-159: the store, then return 0
FailStore(w) ==
    /\ wk[w].pc = "fail_store"
    /\ failed_requests' = CounterStore(wk[w].reg)
    /\ wk' = [wk EXCEPT ![w].reg = 0, ![w].pc = "exit",
                        ![w].f_inc = wk[w].f_inc + 1]
    /\ UNCHANGED <<inputVars, mainVars, semaphore, reviews_queue,
                   successful_requests, taken, finished, fetch_calls,
                   tally, returned_sum, put_log>>
    /\ UNCHANGED <<fetchVars, extractVars>>

\* line 161: self.successful_requests += 1, the load
SuccLoad(w) ==
    /\ wk[w].pc = "succ_load"
    /\ wk' = [wk EXCEPT ![w].reg = CounterLoad(successful_requests),
                        ![w].pc = "succ_store"]
    /\ UNCHANGED <<inputVars, mainVars, semaphore, reviews_queue,
                   successful_requests, failed_requests, taken, finished,
                   fetch_calls, tally, returned_sum, put_log>>
    /\ UNCHANGED <<fetchVars, extractVars>>

\* lines 161-162 and 174-181: the store, then _extract_reviews_from_page up to
\* its loop (return 0 when the page has no review element)
SuccStore(w) ==
    /\ wk[w].pc = "succ_store"
    /\ successful_requests' = CounterStore(wk[w].reg)
    /\ wk' = [wk EXCEPT ![w].reg = 0,
                        ![w].s_inc = wk[w].s_inc + 1,
                        ![w].pc = IF wk[w].elems = <<>> THEN "exit" ELSE "extract"]
    /\ UNCHANGED <<inputVars, mainVars, semaphore, reviews_queue, failed_requests,
                   taken, finished, fetch_calls, tally, returned_sum,
                   put_log>>
    /\ UNCHANGED <<fetchVars, extractVars>>

\* lines 182-233: one turn of the loop over review_elements; an element whose
\* parsing raises is logged and skipped, another is put and counted
ExtractElement(w) ==
    /\ wk[w].pc = "extract"
    /\ wk[w].elems # <<>>
    /\ LET good == Head(wk[w].elems) = "good"
           rec == ReviewData(StarOf(w), PageOf(w), wk[w].idx + 1)
           rest == Tail(wk[w].elems)
       IN  /\ reviews_queue' = IF good THEN QueuePut(reviews_queue, rec)
                               ELSE reviews_queue
           /\ put_log' = IF good THEN Append(put_log, rec) ELSE put_log
           /\ wk' = [wk EXCEPT ![w].elems = rest,
                               ![w].idx = wk[w].idx + 1,
                               ![w].count = IF good THEN wk[w].count + 1
                                            ELSE wk[w].count,
                               ![w].pc = IF rest = <<>> THEN "exit" ELSE "extract"]
    /\ UNCHANGED <<inputVars, mainVars, semaphore, successful_requests,
                   failed_requests, taken, finished, fetch_calls,
                   tally, returned_sum>>
    /\ UNCHANGED <<fetchVars, extractVars>>

\* the end of the with block (the semaphore is released on a return and on an
\* exception alike) and the end of the work item: the future is done
Exit(w) ==
    /\ wk[w].pc = "exit"
    /\ semaphore' = ExitRelease(semaphore, wk[w].kind)
    /\ finished' = finished + 1
    /\ tally' = [tally EXCEPT ![wk[w].kind] = @ + 1]
    /\ returned_sum' = returned_sum + wk[w].count
    /\ wk' = [wk EXCEPT ![w] = IdleWorker]
    /\ UNCHANGED <<inputVars, mainVars, reviews_queue, successful_requests,
                   failed_requests, taken, fetch_calls, put_log>>
    /\ UNCHANGED <<fetchVars, extractVars>>

Next ==
    \/ Start
    \/ CanaryAttempt
    \/ BuildTasks
    \/ Submit
    \/ AsCompleted
    \/ DrainGet
    \/ Return
    \/ \E w \in Workers : Take(w)
    \/ \E w \in Workers : Acquire(w)
    \/ \E w \in Workers : Delay(w)
    \/ \E w \in Workers : Attempt(w)
    \/ \E w \in Workers : FailLoad(w)
    \/ \E w \in Workers : FailStore(w)
    \/ \E w \in Workers : SuccLoad(w)
    \/ \E w \in Workers : SuccStore(w)
    \/ \E w \in Workers : ExtractElement(w)
    \/ \E w \in Workers : Exit(w)

Spec == Init /\ [][Next]_vars

\* ============================================================ SpecFetch
\* One call make_request_with_backoff(url, session, max_retries), a statement
\* at a time. f_log is what the call has done so far: <<"jitter">> for the
\* sleep before a GET, <<"get", kind, status>> for a GET and how it ended,
\* <<"backoff", seconds>> for the sleep after a failed GET (its 2 ** retry part).
InitFetch ==
    /\ max_threads = 1
    /\ max_pages_per_star = 1
    /\ product_url = <<"dp", "B0ABCDE123">>
    /\ session = "session"
    /\ site = NoSite
    /\ ProductOff
    /\ FirstCall
    /\ LoginOff
    /\ pc = "start"
    /\ Constructed
    /\ f_max \in 0..MaxRetriesBound
    /\ f_pc = "test"
    /\ f_retry = 0
    /\ f_log = <<>>
    /\ f_result = NoResponse
    /\ ExtractOff

\* A loop body that sleeps the jitter only before a retry, not before the
\* first GET.
LoopBodyJitterOnRetry(retry) == IF retry = 0 THEN "get" ELSE "jitter"

\* lines 148-152: the body of the loop starts with the try block, whose first
\* statement is time.sleep(get_random_delay()), on every iteration
LoopBody(retry) == "jitter"

\* line 147: while retry < max_retries; line 166: return None
FetchTest ==
    /\ f_pc = "test"
    /\ f_pc' = IF LoopGuard(f_retry, f_max) THEN LoopBody(f_retry) ELSE "none"
    /\ UNCHANGED <<f_max, f_retry, f_log, f_result>>
    /\ UNCHANGED <<runVars, extractVars>>

\* line 150: time.sleep(get_random_delay())
FetchJitter ==
    /\ f_pc = "jitter"
    /\ f_log' = Append(f_log, <<"jitter">>)
    /\ f_pc' = "get"
    /\ UNCHANGED <<f_max, f_retry, f_result>>
    /\ UNCHANGED <<runVars, extractVars>>

\* lines 152-158: session.get; a 200 is returned, an exception that is not a
\* RequestException leaves the call, anything else is logged
FetchGet ==
    /\ f_pc = "get"
    /\ \E o \in GetOutcomes :
         /\ f_log' = Append(f_log, <<"get", o.kind, o.status>>)
         /\ IF IsSuccess(o) THEN f_pc' = "returned" /\ f_result' = o
            ELSE IF Escapes(o) THEN f_pc' = "raised" /\ UNCHANGED f_result
            ELSE f_pc' = "backoff" /\ UNCHANGED f_result
    /\ UNCHANGED <<f_max, f_retry>>
    /\ UNCHANGED <<runVars, extractVars>>

\* lines 161-164: retry += 1, wait_time = 2 ** retry + ..., time.sleep(wait_time)
FetchBackoff ==
    /\ f_pc = "backoff"
    /\ f_retry' = f_retry + 1
    /\ f_log' = Append(f_log, <<"backoff", BackoffWait(f_retry + 1)>>)
    /\ f_pc' = "test"
    /\ UNCHANGED <<f_max, f_result>>
    /\ UNCHANGED <<runVars, extractVars>>

NextFetch ==
    \/ FetchTest
    \/ FetchJitter
    \/ FetchGet
    \/ FetchBackoff

SpecFetch == InitFetch /\ [][NextFetch]_vars

\* ============================================================= SpecGrid
\* scrape_reviews from line 77 on, the main thread alone: the task list and
\* its submission to the executor, for max_pages_per_star up to MaxGridPages
InitGrid ==
    /\ max_threads = 1
    /\ max_pages_per_star \in 1..MaxGridPages
    /\ product_url = <<"dp", "B0ABCDE123">>
    /\ session = "session"
    /\ site = NoSite
    /\ ProductOff
    /\ FirstCall
    /\ LoginOff
    /\ pc = "build"
    /\ semaphore = max_threads
    /\ reviews_queue = <<>>
    /\ total_reviews = 0
    /\ successful_requests = 0
    /\ failed_requests = 0
    /\ canary_retry = 0
    /\ test_response = "clean"
    /\ scrape_tasks = <<>>
    /\ submitted = 0 /\ taken = 0 /\ finished = 0
    /\ reviews = <<>>
    /\ df = <<>>
    /\ exit_line = 0
    /\ wk = [w \in Workers |-> IdleWorker]
    /\ fetch_calls = 1
    /\ tally = [k \in TallyKinds |-> 0]
    /\ returned_sum = 0
    /\ put_log = <<>>
    /\ FetchOff
    /\ ExtractOff

NextGrid ==
    \/ BuildTasks
    \/ Submit

SpecGrid == InitGrid /\ [][NextGrid]_vars

\* =========================================================== SpecExtract
\* _extract_reviews_from_page(html_content, star_rating) called twice on the
\* same page by one thread, a loop turn at a time, while the clock runs.
\* A text is a sequence of characters, a selected element is whether
\* select_one found it and the text get_text() gives for it.
NotFound == [found |-> FALSE, text |-> <<>>]
Found(t) == [found |-> TRUE, text |-> t]

Digits == {"0", "1", "2", "3", "4", "5", "6", "7", "8", "9"}
DigitVal(c) == CHOOSE d \in 0..9 : ToString(d) = c

\* str.strip(): the text without its leading and trailing blanks
RECURSIVE LStrip(_)
LStrip(t) == IF t # <<>> /\ Head(t) = " " THEN LStrip(Tail(t)) ELSE t
RECURSIVE RStrip(_)
RStrip(t) ==
    IF t # <<>> /\ t[Len(t)] = " " THEN RStrip(SubSeq(t, 1, Len(t) - 1)) ELSE t
Strip(t) == RStrip(LStrip(t))

\* lines 184-187 and 190-193: the selector, then the fallback when it found nothing
FirstFound(primary, fallback) == IF primary.found THEN primary ELSE fallback
\* x.get_text().strip() if x else ""
TextOrEmpty(e) == IF e.found THEN Strip(e.text) ELSE <<>>

\* the last index of the run of digits of t that starts at i
RECURSIVE DigitRunEnd(_, _)
DigitRunEnd(t, i) ==
    IF i + 1 <= Len(t) /\ t[i + 1] \in Digits THEN DigitRunEnd(t, i + 1) ELSE i
\* the number a run of digits writes
RECURSIVE DigitsValue(_)
DigitsValue(ds) ==
    IF ds = <<>> THEN 0
    ELSE 10 * DigitsValue(SubSeq(ds, 1, Len(ds) - 1)) + DigitVal(ds[Len(ds)])
\* re.search(r'(\d+(\.\d+)?)', rating_text) and float(group(1)), in tenths (the
\* rating texts have at most one digit after the point); -1 when nothing matches
RatingMatch(t) ==
    LET starts == {i \in 1..Len(t) : t[i] \in Digits}
    IN  IF starts = {} THEN -1
        ELSE LET i == CHOOSE k \in starts : \A m \in starts : k <= m
                 j == DigitRunEnd(t, i)
                 frac == j + 2 <= Len(t) /\ t[j + 1] = "." /\ t[j + 2] \in Digits
             IN  10 * DigitsValue(SubSeq(t, i, j))
                   + (IF frac THEN DigitVal(t[j + 2]) ELSE 0)
\* lines 207-214: the rating of the element when it has one that holds a
\* number, the star filter otherwise (in tenths)
ExtractedRating(rating_elem, star) ==
    IF rating_elem.found /\ RatingMatch(Strip(rating_elem.text)) # -1
    THEN RatingMatch(Strip(rating_elem.text))
    ELSE 10 * star

\* ticks of the clock in a second
TicksPerSecond == 2
\* datetime.now().strftime("%Y-%m-%d %H:%M:%S"): the time cut to the second
Strftime(now) == now \div TicksPerSecond

\* lines 216-224: review_data
ReviewRecordOf(el, star, now) ==
    [star_rating |-> ExtractedRating(el.rating, star),
     title |-> TextOrEmpty(FirstFound(el.title_span, el.title_hook)),
     text |-> TextOrEmpty(FirstFound(el.text_span, el.text_hook)),
     date |-> TextOrEmpty(el.date),
     verified |-> el.verified,
     author |-> TextOrEmpty(el.author),
     extracted_date |-> Strftime(now)]

\* The review elements a page is made of: one with every field under its first
\* selector, one with title and body under the fallback selectors only and a
\* rating without a number, one with nothing in it, one whose parsing raises,
\* one whose first selectors find blank elements.
ElFull ==
    [raises |-> FALSE,
     title_span |-> Found(<<" ", "T", " ">>), title_hook |-> Found(<<"5", " ", "T", " ">>),
     text_span |-> Found(<<"B", " ">>), text_hook |-> Found(<<"B", " ", "m">>),
     date |-> Found(<<" ", "D">>), verified |-> TRUE, author |-> Found(<<"A">>),
     rating |-> Found(<<"4", ".", "0", " ", "o", "f", " ", "5">>)]
ElFallback ==
    [raises |-> FALSE,
     title_span |-> NotFound, title_hook |-> Found(<<"T", "2", " ">>),
     text_span |-> NotFound, text_hook |-> Found(<<" ", "B", "2">>),
     date |-> NotFound, verified |-> FALSE, author |-> Found(<<" ", "A", " ">>),
     rating |-> Found(<<"s", "t", "a", "r", "s">>)]
ElBare ==
    [raises |-> FALSE,
     title_span |-> NotFound, title_hook |-> NotFound,
     text_span |-> NotFound, text_hook |-> NotFound,
     date |-> NotFound, verified |-> FALSE, author |-> NotFound,
     rating |-> NotFound]
ElRaising == [ElBare EXCEPT !.raises = TRUE]
\* an element whose first span under the title and under the body is blank
ElBlankSpan ==
    [ElBare EXCEPT !.title_span = Found(<<" ">>),
                   !.title_hook = Found(<<" ", "T", "3">>),
                   !.text_span = Found(<<>>),
                   !.text_hook = Found(<<"B", "3", " ">>)]
ReviewElements == {ElFull, ElFallback, ElBare, ElRaising, ElBlankSpan}

\* an except clause that leaves the loop
AfterParseErrorBreak(i, n) == n + 1
\* lines 229-231: except Exception: log and continue with the next element
AfterParseError(i, n) == i + 1

\* a count that is kept from one call to the next
CountCarriedOver(previous) == previous
\* line 181: count = 0
CountAtEntry(previous) == 0

InitExtract ==
    /\ max_threads = 1
    /\ max_pages_per_star = 1
    /\ product_url = <<"dp", "B0ABCDE123">>
    /\ session = "session"
    /\ site = NoSite
    /\ ProductOff
    /\ FirstCall
    /\ LoginOff
    /\ pc = "start"
    /\ Constructed
    /\ FetchOff
    /\ x_pc = "call"
    /\ x_page \in SeqsUpTo(ReviewElements, MaxElems)
    /\ x_star \in 1..TopStar
    /\ x_now = 0
    /\ x_i = 0 /\ x_count = 0
    /\ x_call = 1
    /\ x_counts = <<>>

runVarsButQueue ==
    <<max_threads, max_pages_per_star, product_url, session, site, productVars, callVars, loginVars, semaphore,
      total_reviews, successful_requests, failed_requests, pc, canary_retry,
      test_response, scrape_tasks, submitted, taken, finished, reviews, df,
      exit_line, wk, fetch_calls, tally, returned_sum, put_log>>

\* lines 174-181: soup.select of the container; return 0 when it finds nothing
ExtractCall ==
    /\ x_pc = "call"
    /\ IF x_page = <<>>
       THEN /\ x_pc' = "returned"
            /\ x_counts' = Append(x_counts, 0)
            /\ UNCHANGED <<x_i, x_count>>
       ELSE /\ x_pc' = "loop"
            /\ x_i' = 1
            /\ x_count' = CountAtEntry(x_count)
            /\ UNCHANGED x_counts
    /\ UNCHANGED <<x_page, x_star, x_now, x_call, reviews_queue>>
    /\ UNCHANGED <<runVarsButQueue, fetchVars>>

\* lines 182-233: one turn of the loop; an element whose parsing raises is
\* skipped (line 229), another is put with the time of this turn and counted;
\* after the last element the count is returned
ExtractReview ==
    /\ x_pc = "loop"
    /\ LET el == x_page[x_i]
           n == IF el.raises THEN x_count ELSE x_count + 1
           nxt == IF el.raises THEN AfterParseError(x_i, Len(x_page)) ELSE x_i + 1
       IN  /\ reviews_queue' =
                IF el.raises THEN reviews_queue
                ELSE QueuePut(reviews_queue, ReviewRecordOf(el, x_star, x_now))
           /\ x_count' = n
           /\ IF nxt > Len(x_page)
              THEN /\ x_pc' = "returned"
                   /\ x_counts' = Append(x_counts, n)
                   /\ UNCHANGED x_i
              ELSE /\ x_i' = nxt
                   /\ UNCHANGED <<x_pc, x_counts>>
    /\ UNCHANGED <<x_page, x_star, x_now, x_call>>
    /\ UNCHANGED <<runVarsButQueue, fetchVars>>

\* the caller calls the function once more on the same html_content
ExtractAgain ==
    /\ x_pc = "returned"
    /\ x_call = 1
    /\ x_call' = 2
    /\ x_pc' = "call"
    /\ UNCHANGED <<x_page, x_star, x_now, x_i, x_count, x_counts, reviews_queue>>
    /\ UNCHANGED <<runVarsButQueue, fetchVars>>

\* time passes
Tick ==
    /\ x_now < MaxClock
    /\ x_now' = x_now + 1
    /\ UNCHANGED <<x_pc, x_page, x_star, x_i, x_count, x_call, x_counts>>
    /\ UNCHANGED <<runVars, fetchVars>>

NextExtract ==
    \/ ExtractCall
    \/ ExtractReview
    \/ ExtractAgain
    \/ Tick

SpecExtract == InitExtract /\ [][NextExtract]_vars

\* =========================================================== SpecProduct
\* One call of ProductScraper._extract_product_info(html_content, product_id).
\* The page is what each selector of PRODUCT_SELECTORS finds in it: for a list
\* of selectors a sequence, one entry per selector, in list order.

\* the default of a field
NotFoundText == <<"Not found">>

\* the last index of the run of characters of S in t that starts at i
RECURSIVE RunEnd(_, _, _)
RunEnd(t, i, S) ==
    IF i + 1 <= Len(t) /\ t[i + 1] \in S THEN RunEnd(t, i + 1, S) ELSE i
\* re.search(r'([S]+(\.\d+)?)', t).group(1), or with fraction FALSE
\* re.search(r'([S]+)', t).group(1); the empty text when nothing matches
NumberSearch(t, S, fraction) ==
    LET starts == {i \in 1..Len(t) : t[i] \in S}
    IN  IF starts = {} THEN <<>>
        ELSE LET i == CHOOSE k \in starts : \A m \in starts : k <= m
                 j == RunEnd(t, i, S)
                 frac == /\ fraction
                         /\ j + 2 <= Len(t) /\ t[j + 1] = "." /\ t[j + 2] \in Digits
             IN  SubSeq(t, i, IF frac THEN RunEnd(t, j + 2, Digits) ELSE j)

\* lines 67-75: the price selectors in list order; a selector whose element is
\* missing or holds no number is passed over, the first number ends the loop
RECURSIVE PriceLoop(_, _)
PriceLoop(chain, k) ==
    IF k > Len(chain) THEN <<>>
    ELSE LET m == NumberSearch(Strip(chain[k].text), Digits \cup {","}, TRUE)
         IN  IF chain[k].found /\ m # <<>> THEN m ELSE PriceLoop(chain, k + 1)

\* lines 85-88: "Brand:" is taken out of the text and the rest stripped
CleanBrand(t) ==
    IF \E i \in 1..Len(t) : t[i] = "Brand:"
    THEN Strip(SelectSeq(t, LAMBDA c : c # "Brand:"))
    ELSE t
\* lines 80-89: the brand selectors in list order; the first selector whose
\* element exists ends the loop, whatever its text
RECURSIVE BrandLoop(_, _)
BrandLoop(chain, k) ==
    IF k > Len(chain) THEN <<>>
    ELSE IF chain[k].found THEN CleanBrand(Strip(chain[k].text))
    ELSE BrandLoop(chain, k + 1)

\* lines 108-117: the star-rating selectors in list order, as for the price
\* (the text is not stripped)
RECURSIVE StarLoop2(_, _)
StarLoop2(chain, k) ==
    IF k > Len(chain) THEN <<>>
    ELSE LET m == NumberSearch(chain[k].text, Digits, TRUE)
         IN  IF chain[k].found /\ m # <<>> THEN m ELSE StarLoop2(chain, k + 1)

\* x if x else "Not found"
OrNotFound(x) == IF x # <<>> THEN x ELSE NotFoundText

\* lines 59-121: product_info (without "product_id")
ProductInfo(page) ==
    [title |-> IF page.title.found THEN Strip(page.title.text) ELSE NotFoundText,
     price |-> LET price == PriceLoop(page.price, 1)
               IN  IF price # <<>> THEN <<"Rs">> \o price ELSE NotFoundText,
     brand |-> OrNotFound(BrandLoop(page.brand, 1)),
     about_this_item |->
         SelectSeq([i \in 1..Len(page.about) |-> Strip(page.about[i])],
                   LAMBDA t : t # <<>>),
     total_ratings |->
         IF page.total_ratings.found
         THEN OrNotFound(NumberSearch(Strip(page.total_ratings.text),
                                      Digits \cup {","}, FALSE))
         ELSE NotFoundText,
     star_rating |-> OrNotFound(StarLoop2(page.star, 1))]

\* What the k-th selector of a list can find: nothing, an element without a
\* usable text, an element with one (that names k).
PriceFinds(k) ==
    {NotFound, Found(<<" ", "o", "f", "f">>),
     Found(<<" ", ToString(k), ",", "0", ".", "5", "0", " ">>)}
BrandFinds(k) ==
    {NotFound, Found(<<"Brand:", " ">>), Found(<<"Brand:", " ", "A", ToString(k)>>),
     Found(<<" ", "S", ToString(k), " ">>)}
StarFinds(k) ==
    {NotFound, Found(<<"n", "e", "w">>), Found(<<" ", "4", ".", ToString(k), " ", "o">>)}
\* "#bylineInfo" finds every element "a#bylineInfo" finds: the third brand
\* selector finds nothing or what the first one found
ProductPages ==
    { pg \in [title : {NotFound, Found(<<" ", "P", " ">>)},
              price : PriceFinds(1) \X PriceFinds(2) \X PriceFinds(3),
              brand : BrandFinds(1) \X BrandFinds(2) \X BrandFinds(1),
              about : {<<>>, << <<" ", "x">>, <<" ">> >>},
              total_ratings : {NotFound, Found(<<"1", ",", "2", " ", "r">>)},
              star : StarFinds(1) \X StarFinds(2)] :
        pg.brand[3].found => pg.brand[3] = pg.brand[1] }

InitProduct ==
    /\ max_threads = 1
    /\ max_pages_per_star = 1
    /\ product_url = <<"dp", "B0ABCDE123">>
    /\ session = "session"
    /\ site = NoSite
    /\ pc = "start"
    /\ Constructed
    /\ FetchOff
    /\ ExtractOff
    /\ FirstCall
    /\ LoginOff
    /\ p_pc = "call"
    /\ p_page \in ProductPages
    /\ p_info = <<>>

\* the call: every field of product_info is computed from the page
ExtractProductInfo ==
    /\ p_pc = "call"
    /\ p_info' = ProductInfo(p_page)
    /\ p_pc' = "returned"
    /\ UNCHANGED p_page
    /\ UNCHANGED <<max_threads, max_pages_per_star, product_url, session, site,
                   callVars, loginVars, semaphore, reviews_queue, total_reviews, successful_requests,
                   failed_requests, pc, canary_retry, test_response, scrape_tasks,
                   submitted, taken, finished, reviews, df, exit_line, wk,
                   fetch_calls, tally, returned_sum, put_log>>
    /\ UNCHANGED <<fetchVars, extractVars>>

NextProduct == ExtractProductInfo

SpecProduct == InitProduct /\ [][NextProduct]_vars

\* ============================================================= SpecOrder
\* scrape_reviews from line 77 on (the canary check has passed) against a site
\* whose answer to each task's GET is fixed for the run: site[t] is what every
\* GET of task t is answered with. The workers run in any order while the clock
\* runs, and each record carries the second at which it was built.
FullPage == [i \in 1..MaxReviews |-> "good"]
\* a login wall with reviews under it, a page of reviews
SitePages ==
    { [kind |-> "response", status |-> HttpOk, soft |-> TRUE, elems |-> FullPage],
      [kind |-> "response", status |-> HttpOk, soft |-> FALSE, elems |-> FullPage] }

\* review_data with its "extracted_date" (line 223)
TimedReviewData(star, page, i, now) == ReviewData(star, page, i) \o <<Strftime(now)>>
\* a record without its "extracted_date"
Untimed(r) == SubSeq(r, 1, 3)

InitOrder ==
    /\ max_threads \in 1..MaxThreads
    /\ max_pages_per_star \in 1..MaxPages
    /\ product_url = <<"dp", "B0ABCDE123">>
    /\ session = "session"
    /\ site \in [1..(TopStar * max_pages_per_star) -> SitePages]
    /\ ProductOff
    /\ FirstCall
    /\ LoginOff
    /\ pc = "build"
    /\ semaphore = max_threads
    /\ reviews_queue = <<>>
    /\ total_reviews = 0
    /\ successful_requests = 0
    /\ failed_requests = 0
    /\ canary_retry = 0
    /\ test_response = "clean"
    /\ scrape_tasks = <<>>
    /\ submitted = 0 /\ taken = 0 /\ finished = 0
    /\ reviews = <<>>
    /\ df = <<>>
    /\ exit_line = 0
    /\ wk = [w \in Workers |-> IdleWorker]
    /\ fetch_calls = 1
    /\ tally = [k \in TallyKinds |-> 0]
    /\ returned_sum = 0
    /\ put_log = <<>>
    /\ FetchOff
    /\ ExtractOff

\* line 149: one iteration of the loop of make_request_with_backoff, the GET
\* answered by the site
AttemptSite(w) ==
    /\ wk[w].pc = "fetch"
    /\ wk' = [wk EXCEPT ![w] =
                AfterFetch(w, FetchIteration(wk[w].retry, DefaultMaxRetries,
                                             site[wk[w].task]))]
    /\ UNCHANGED <<inputVars, mainVars, semaphore, reviews_queue,
                   successful_requests, failed_requests, taken, finished,
                   fetch_calls, tally, returned_sum, put_log>>
    /\ UNCHANGED <<fetchVars, extractVars>>

\* lines 182-233: one turn of the loop over review_elements, the record stamped
\* with the clock's second
ExtractElementTimed(w) ==
    /\ wk[w].pc = "extract"
    /\ wk[w].elems # <<>>
    /\ LET good == Head(wk[w].elems) = "good"
           rec == TimedReviewData(StarOf(w), PageOf(w), wk[w].idx + 1, x_now)
           rest == Tail(wk[w].elems)
       IN  /\ reviews_queue' = IF good THEN QueuePut(reviews_queue, rec)
                               ELSE reviews_queue
           /\ put_log' = IF good THEN Append(put_log, rec) ELSE put_log
           /\ wk' = [wk EXCEPT ![w].elems = rest,
                               ![w].idx = wk[w].idx + 1,
                               ![w].count = IF good THEN wk[w].count + 1
                                            ELSE wk[w].count,
                               ![w].pc = IF rest = <<>> THEN "exit" ELSE "extract"]
    /\ UNCHANGED <<inputVars, mainVars, semaphore, successful_requests,
                   failed_requests, taken, finished, fetch_calls,
                   tally, returned_sum>>
    /\ UNCHANGED <<fetchVars, extractVars>>

\* a second passes
TickSecond ==
    /\ x_now + TicksPerSecond <= MaxClock
    /\ x_now' = x_now + TicksPerSecond
    /\ UNCHANGED <<x_pc, x_page, x_star, x_i, x_count, x_call, x_counts>>
    /\ UNCHANGED <<runVars, fetchVars>>

NextOrder ==
    \/ BuildTasks
    \/ Submit
    \/ AsCompleted
    \/ DrainGet
    \/ Return
    \/ TickSecond
    \/ \E w \in Workers : Take(w)
    \/ \E w \in Workers : Acquire(w)
    \/ \E w \in Workers : Delay(w)
    \/ \E w \in Workers : AttemptSite(w)
    \/ \E w \in Workers : FailLoad(w)
    \/ \E w \in Workers : FailStore(w)
    \/ \E w \in Workers : SuccLoad(w)
    \/ \E w \in Workers : SuccStore(w)
    \/ \E w \in Workers : ExtractElementTimed(w)
    \/ \E w \in Workers : Exit(w)

SpecOrder == InitOrder /\ [][NextOrder]_vars

\* ============================================================ SpecDelay
\* The tasks of one run of a single worker with up to MaxDelayPages pages per
\* star rating, from the building of scrape_tasks on, each page answered by the
\* site: the tasks of page 3 and later reach the semaphore and
\* make_request_with_backoff.

\* every page a login wall, or every page a page of reviews
UniformSites(n) == {[t \in 1..n |-> p] : p \in SitePages}

InitDelay ==
    /\ max_threads = 1
    /\ max_pages_per_star \in 1..MaxDelayPages
    /\ product_url = <<"dp", "B0ABCDE123">>
    /\ session = "session"
    /\ site \in UniformSites(TopStar * max_pages_per_star)
    /\ ProductOff
    /\ FirstCall
    /\ LoginOff
    /\ pc = "build"
    /\ semaphore = max_threads
    /\ reviews_queue = <<>>
    /\ total_reviews = 0
    /\ successful_requests = 0
    /\ failed_requests = 0
    /\ canary_retry = 0
    /\ test_response = "clean"
    /\ scrape_tasks = <<>>
    /\ submitted = 0 /\ taken = 0 /\ finished = 0
    /\ reviews = <<>>
    /\ df = <<>>
    /\ exit_line = 0
    /\ wk = [w \in Workers |-> IdleWorker]
    /\ fetch_calls = 1
    /\ tally = [k \in TallyKinds |-> 0]
    /\ returned_sum = 0
    /\ put_log = <<>>
    /\ FetchOff
    /\ ExtractOff

NextDelay ==
    \/ BuildTasks
    \/ Submit
    \/ \E w \in Workers : Take(w)
    \/ \E w \in Workers : Acquire(w)
    \/ \E w \in Workers : Delay(w)
    \/ \E w \in Workers : AttemptSite(w)
    \/ \E w \in Workers : FailLoad(w)
    \/ \E w \in Workers : FailStore(w)
    \/ \E w \in Workers : SuccLoad(w)
    \/ \E w \in Workers : SuccStore(w)
    \/ \E w \in Workers : ExtractElement(w)
    \/ \E w \in Workers : Exit(w)

SpecDelay == InitDelay /\ [][NextDelay]_vars

\* ============================================================ SpecRerun
\* A ReviewScraper with one worker whose scrape_reviews is called up to
\* MaxCalls times, a call beginning when the one before has returned.

\* what __init__ sets and scrape_reviews never assigns: the attributes of the
\* instance, which a later call finds as the earlier one left them
InstanceAttributes ==
    <<max_threads, session, semaphore, reviews_queue, total_reviews,
      successful_requests, failed_requests>>

InitRerun == Init /\ max_threads = 1

\* scrape_reviews(product_url, max_pages_per_star) called again on the same
\* instance (lines 41-50): new arguments, new locals, a new pool; the history
\* starts afresh so that it is the history of this call
CallAgain ==
    /\ pc = "done"
    /\ calls < MaxCalls
    /\ calls' = calls + 1
    /\ carried' = successful_requests + failed_requests
    /\ product_url' \in ProductUrls
    /\ max_pages_per_star' \in 1..MaxPages
    /\ pc' = "start"
    /\ canary_retry' = 0
    /\ test_response' = "unset"
    /\ scrape_tasks' = <<>>
    /\ submitted' = 0 /\ taken' = 0 /\ finished' = 0
    /\ reviews' = <<>>
    /\ df' = <<>>
    /\ exit_line' = 0
    /\ wk' = [w \in Workers |-> IdleWorker]
    /\ fetch_calls' = 0
    /\ tally' = [k \in TallyKinds |-> 0]
    /\ returned_sum' = 0
    /\ put_log' = <<>>
    /\ UNCHANGED <<InstanceAttributes, site, productVars, loginVars>>
    /\ UNCHANGED <<fetchVars, extractVars>>

NextRerun ==
    \/ Next
    \/ CallAgain

SpecRerun == InitRerun /\ [][NextRerun]_vars

\* ============================================================ SpecLogin
\* The login tab of the dashboard (app.py, lines 46-119) and the check of the
\* "Scrape Reviews" button (lines 192-195). A click runs the script once: each
\* button is an action. The user and the disk are the environment: the user
\* logs in or closes the Chrome window, a write of cookies.json succeeds or not.

\* the cookies Amazon sets on a first visit, and those of a logged-in user
VisitorCookies == <<"session-id">>
LoggedInCookies == <<"session-id", "at-main">>

NoWindow == [window |-> "none", jar |-> <<>>]
NoFile == [state |-> "absent", cookies |-> <<>>]

\* 'amazon_cookies' in st.session_state
HasCookies(ss) == "amazon_cookies" \in DOMAIN ss
\* st.session_state['amazon_cookies'] = cookies
WithCookies(ss, cookies) ==
    [k \in DOMAIN ss \cup {"amazon_cookies"} |->
        IF k = "amazon_cookies" THEN cookies ELSE ss[k]]
\* st.session_state.driver = None; st.session_state.browser_open = False
BrowserReset(ss) == [ss EXCEPT !.driver = None, !.browser_open = FALSE]

\* driver.quit(): the window goes; on a window the user has closed the call
\* may raise
Quit(c) == IF c.window = "open" THEN [c EXCEPT !.window = "quit"] ELSE c
QuitMayRaise(c) == c.window # "open"

\* save_cookies(driver) (browser.py, lines 60-79): the cookies of the browser,
\* written to cookies.json and returned; [] when get_cookies or the write
\* raises. wrote is what the disk does: "ok", "open_failed" or "dump_failed".
SaveCookies(c, file, wrote) ==
    IF c.window # "open"
    THEN [returned |-> <<>>, file |-> file, saved |-> FALSE]
    ELSE IF wrote = "ok"
    THEN [returned |-> c.jar, file |-> [state |-> "written", cookies |-> c.jar],
          saved |-> TRUE]
    ELSE IF wrote = "dump_failed"
    THEN [returned |-> <<>>, file |-> [state |-> "partial", cookies |-> <<>>],
          saved |-> FALSE]
    ELSE [returned |-> <<>>, file |-> file, saved |-> FALSE]

WriteOutcomes == {"ok", "open_failed", "dump_failed"}

\* the state after the first run of the script (lines 51-53)
InitLogin ==
    /\ max_threads = 1
    /\ max_pages_per_star = 1
    /\ product_url = <<"dp", "B0ABCDE123">>
    /\ session = "session"
    /\ site = NoSite
    /\ ProductOff
    /\ FirstCall
    /\ pc = "start"
    /\ Constructed
    /\ FetchOff
    /\ ExtractOff
    /\ st_session_state = [browser_open |-> FALSE, driver |-> None]
    /\ chrome = NoWindow
    /\ cookies_json \in {NoFile, [state |-> "written", cookies |-> LoggedInCookies]}
    /\ l_event = "none"
    /\ l_saved = FALSE

\* lines 65-78: "Open Amazon Login Page"; create_browser returns a driver or
\* None (browser.py, lines 10-58)
OpenLoginPage ==
    /\ IF ~st_session_state.browser_open
       THEN \E created \in BOOLEAN :
              IF created
              THEN /\ chrome' = [window |-> "open", jar |-> VisitorCookies]
                   /\ st_session_state' =
                        [st_session_state EXCEPT !.driver = "driver",
                                                 !.browser_open = TRUE]
                   /\ l_event' = "opened"
              ELSE /\ l_event' = "open_failed"
                   /\ UNCHANGED <<chrome, st_session_state>>
       ELSE /\ l_event' = "already_open"
            /\ UNCHANGED <<chrome, st_session_state>>
    /\ UNCHANGED <<cookies_json, l_saved>>
    /\ UNCHANGED <<max_threads, max_pages_per_star, product_url, session, site,
                   productVars, callVars, semaphore, reviews_queue,
                   total_reviews, successful_requests, failed_requests,
                   mainVars, wk, taken, finished, fetch_calls, tally,
                   returned_sum, put_log>>
    /\ UNCHANGED <<fetchVars, extractVars>>

\* the user logs in to Amazon in the Chrome window
UserLogsIn ==
    /\ chrome.window = "open"
    /\ chrome.jar = VisitorCookies
    /\ chrome' = [chrome EXCEPT !.jar = LoggedInCookies]
    /\ UNCHANGED <<st_session_state, cookies_json, l_event, l_saved>>
    /\ UNCHANGED <<max_threads, max_pages_per_star, product_url, session, site,
                   productVars, callVars, semaphore, reviews_queue,
                   total_reviews, successful_requests, failed_requests,
                   mainVars, wk, taken, finished, fetch_calls, tally,
                   returned_sum, put_log>>
    /\ UNCHANGED <<fetchVars, extractVars>>

\* the user closes the Chrome window
UserClosesWindow ==
    /\ chrome.window = "open"
    /\ chrome' = [chrome EXCEPT !.window = "closed"]
    /\ UNCHANGED <<st_session_state, cookies_json, l_event, l_saved>>
    /\ UNCHANGED <<max_threads, max_pages_per_star, product_url, session, site,
                   productVars, callVars, semaphore, reviews_queue,
                   total_reviews, successful_requests, failed_requests,
                   mainVars, wk, taken, finished, fetch_calls, tally,
                   returned_sum, put_log>>
    /\ UNCHANGED <<fetchVars, extractVars>>

\* lines 82-102: "I've Logged In Successfully". save_cookies returns, its
\* result is stored under 'amazon_cookies', the driver is quit; when quit
\* raises, the except branch quits again and resets the same two fields.
ConfirmLogin ==
    /\ st_session_state.browser_open
    /\ IF st_session_state.driver # None
       THEN \E wrote \in WriteOutcomes, quit_raises \in BOOLEAN :
              LET r == SaveCookies(chrome, cookies_json, wrote)
              IN  /\ quit_raises => QuitMayRaise(chrome)
                  /\ cookies_json' = r.file
                  /\ st_session_state' =
                       BrowserReset(WithCookies(st_session_state, r.returned))
                  /\ chrome' = Quit(chrome)
                  /\ l_event' = IF r.saved THEN "confirm_saved"
                                ELSE "confirm_failed"
                  /\ l_saved' = (l_saved \/ r.saved)
       ELSE /\ l_event' = "confirm_no_driver"
            /\ UNCHANGED <<st_session_state, chrome, cookies_json, l_saved>>
    /\ UNCHANGED <<max_threads, max_pages_per_star, product_url, session, site,
                   productVars, callVars, semaphore, reviews_queue,
                   total_reviews, successful_requests, failed_requests,
                   mainVars, wk, taken, finished, fetch_calls, tally,
                   returned_sum, put_log>>
    /\ UNCHANGED <<fetchVars, extractVars>>

\* lines 105-113: "Cancel Login / Close Browser"
CancelLogin ==
    /\ st_session_state.browser_open
    /\ chrome' = Quit(chrome)
    /\ st_session_state' = BrowserReset(st_session_state)
    /\ l_event' = "cancelled"
    /\ UNCHANGED <<cookies_json, l_saved>>
    /\ UNCHANGED <<max_threads, max_pages_per_star, product_url, session, site,
                   productVars, callVars, semaphore, reviews_queue,
                   total_reviews, successful_requests, failed_requests,
                   mainVars, wk, taken, finished, fetch_calls, tally,
                   returned_sum, put_log>>
    /\ UNCHANGED <<fetchVars, extractVars>>

\* lines 192-195: "Scrape Reviews" goes on to scrape only with
\* 'amazon_cookies' in st.session_state
ScrapeReviewsClick ==
    /\ l_event' = IF HasCookies(st_session_state) THEN "scrape_started"
                  ELSE "scrape_refused"
    /\ UNCHANGED <<st_session_state, chrome, cookies_json, l_saved>>
    /\ UNCHANGED <<max_threads, max_pages_per_star, product_url, session, site,
                   productVars, callVars, semaphore, reviews_queue,
                   total_reviews, successful_requests, failed_requests,
                   mainVars, wk, taken, finished, fetch_calls, tally,
                   returned_sum, put_log>>
    /\ UNCHANGED <<fetchVars, extractVars>>

NextLogin ==
    \/ OpenLoginPage
    \/ UserLogsIn
    \/ UserClosesWindow
    \/ ConfirmLogin
    \/ CancelLogin
    \/ ScrapeReviewsClick

SpecLogin == InitLogin /\ [][NextLogin]_vars

\* ============================================================== SpecLive
\* Spec with the scheduling the code runs under: the main thread and every
\* worker thread of the pool is an operating-system thread that gets to run
\* when it can, every session.get ends (timeout=10) and every sleep ends.
MainStep ==
    \/ Start
    \/ CanaryAttempt
    \/ BuildTasks
    \/ Submit
    \/ AsCompleted
    \/ DrainGet
    \/ Return
WorkerStep(w) ==
    /\ w \in Workers
    /\ \/ Take(w)
       \/ Acquire(w)
       \/ Delay(w)
       \/ Attempt(w)
       \/ FailLoad(w)
       \/ FailStore(w)
       \/ SuccLoad(w)
       \/ SuccStore(w)
       \/ ExtractElement(w)
       \/ Exit(w)
Fairness ==
    /\ WF_vars(MainStep)
    /\ \A w \in 1..MaxThreads : WF_vars(WorkerStep(w))

SpecLive == Init /\ [][Next]_vars /\ Fairness

\* ================================================================ claims
\* app.py, the caller: all it gets from scrape_reviews is the table, and it
\* tells "scraped" from "failed or no reviews found" by the table being empty
CallerStatus(table) == IF table = <<>> THEN "failed_or_no_reviews" ELSE "scraped"

Range(q) == {q[i] : i \in 1..Len(q)}
CountIn(q, r) == Cardinality({i \in 1..Len(q) : q[i] = r})
SameBag(a, b) == \A r \in Range(a) \cup Range(b) : CountIn(a, r) = CountIn(b, r)
\* the records of task t in a sequence of records
RecordsOf(q, t) == Cardinality({i \in 1..Len(q) : q[i][1] = t[1] /\ q[i][2] = t[2]})
WorkersIdle == \A w \in Workers : wk[w] = IdleWorker
\* the run got past the canary check and scrape_reviews returned at line 125
Completed == pc = "done" /\ exit_line = 125

\* C1: at every moment of a run the workers between the semaphore's acquire and
\* its release, and so the calls of make_request_with_backoff in progress, are at
\* most max_threads; the semaphore's value is the capacity those workers leave.
C1_BoundedConcurrency ==
    /\ InFlight <= max_threads
    /\ Fetching <= max_threads
    /\ semaphore = max_threads - InFlight
\* the cap is reached: two workers fetch at once while tasks still wait
C1_Witness == max_threads = 2 /\ Fetching = 2 /\ taken < submitted

\* C2: when the canary call returns no response, scrape_reviews returns an empty
\* table and an "aborted" status, submits no task, and has made one fetch call.
C2_CanaryFailureAborts ==
    (test_response = None /\ pc = "done") =>
        /\ df = <<>>
        /\ CallerStatus(df) = "aborted"
        /\ submitted = 0
        /\ fetch_calls = 1
\* the part of C2 the code keeps: an empty table, no task, one fetch call
CanaryFailureStopsRun ==
    test_response = None =>
        /\ pc = "done" /\ exit_line = 68 /\ df = <<>>
        /\ scrape_tasks = <<>> /\ submitted = 0 /\ fetch_calls = 1 /\ WorkersIdle

\* C3: when the canary call returns a 200 whose body holds a soft-block marker,
\* the run ends at once: no task is built or submitted, no task fetch is issued,
\* nothing is put into the queue, no counter changes, the table is empty.
C3_SoftBlockedCanaryAborts ==
    test_response = "soft" =>
        /\ pc = "done" /\ exit_line = 73
        /\ df = <<>>
        /\ scrape_tasks = <<>> /\ submitted = 0 /\ taken = 0
        /\ fetch_calls = 1
        /\ put_log = <<>> /\ reviews_queue = <<>>
        /\ successful_requests = 0 /\ failed_requests = 0 /\ total_reviews = 0
        /\ WorkersIdle
C3_Witness == test_response = "soft" /\ pc = "done" /\ fetch_calls = 1

\* C4: a task whose fetch raised or ended without a 200 leaves the run going,
\* has incremented the failure counter exactly once and the success counter not
\* at all, and has added no review.
C4_FailedTaskCounted ==
    /\ (test_response = "clean") => pc # "raised"
    /\ \A w \in Workers :
         (wk[w].pc = "exit" /\ wk[w].kind \in {"none", "raised"}) =>
             /\ wk[w].f_inc = 1
             /\ wk[w].s_inc = 0
             /\ wk[w].count = 0

\* every page that was fetched and not soft-blocked gave exactly k reviews
UniformPages(k) ==
    /\ returned_sum = k * tally["ok"]
    /\ \A t \in Range(scrape_tasks) : RecordsOf(put_log, t) \in {0, k}

\* C5: in a completed run where every fetch returned a 200, b pages were
\* soft-blocked and every other page gave exactly k reviews, the table has
\* (T - b) * k rows, the failure counter is b and the success counter T - b.
C5_EndToEndCounts ==
    (Completed /\ tally["none"] = 0 /\ tally["raised"] = 0) =>
        \A k \in 0..MaxReviews :
            UniformPages(k) =>
                /\ Len(df) = (Len(scrape_tasks) - tally["soft"]) * k
                /\ failed_requests = tally["soft"]
                /\ successful_requests = Len(scrape_tasks) - tally["soft"]
\* the part of C5 that does not rest on the counters: the rows
EndToEndRows ==
    (Completed /\ tally["none"] = 0 /\ tally["raised"] = 0) =>
        \A k \in 0..MaxReviews :
            UniformPages(k) => Len(df) = (Len(scrape_tasks) - tally["soft"]) * k

\* C6: no increment of successful_requests or failed_requests is lost: once the
\* workers have joined, the two counters add up to the number of tasks that
\* executed an increment.
C6_NoLostIncrement ==
    (pc \in {"drain", "done"} /\ test_response = "clean") =>
        successful_requests + failed_requests =
            tally["none"] + tally["soft"] + tally["ok"]

\* C7: nothing put into reviews_queue is lost or duplicated: the queue and the
\* drained list together always hold exactly the records put so far, and the
\* returned table is that multiset, with as many rows as the tasks' returned
\* counts add up to.
C7_NothingLost ==
    /\ SameBag(reviews \o reviews_queue, put_log)
    /\ Len(reviews) + Len(reviews_queue) = Len(put_log)
    /\ Completed =>
         /\ SameBag(df, put_log)
         /\ Len(df) = Len(put_log)
         /\ Len(df) = returned_sum
         /\ reviews_queue = <<>>
\* a completed run of two workers whose table is not in submission order
C7_Witness ==
    /\ Completed /\ max_threads = 2 /\ Len(df) >= 3
    /\ \E i \in 1..Len(df) : \E j \in 1..Len(df) : i < j /\ df[i][1] < df[j][1]

\* the GETs and the backoff waits of the call, in order
Gets == SelectSeq(f_log, LAMBDA e : e[1] = "get")
Backoffs == SelectSeq(f_log, LAMBDA e : e[1] = "backoff")
Failed200(e) == ~(e[2] = "response" /\ e[3] = 200)
Retryable(e) == Failed200(e) /\ e[2] # "other_exc"
FetchEnded == f_pc \in {"returned", "none", "raised"}

\* C8: the backoff wait after the a-th failed attempt is at least 2^a seconds; a
\* call with max_retries = 3 whose first two attempts fail and whose third
\* returns a 200 returns that response after waits of at least 2 + 4 seconds.
C8_BackoffAtLeastPow2 ==
    /\ \A a \in 1..Len(Backoffs) : Backoffs[a][2] >= 2 ^ a
    /\ \A i \in 1..Len(f_log) :
         f_log[i][1] = "backoff" =>
             /\ i > 1 /\ f_log[i - 1][1] = "get" /\ Retryable(f_log[i - 1])
             /\ Len(SelectSeq(SubSeq(f_log, 1, i), LAMBDA e : e[1] = "backoff"))
                  = Len(SelectSeq(SubSeq(f_log, 1, i), LAMBDA e : e[1] = "get"))
    /\ (f_max = 3 /\ f_pc = "returned" /\ Len(Gets) = 3) =>
         /\ f_result # NoResponse /\ IsSuccess(f_result)
         /\ Len(Backoffs) = 2
         /\ Backoffs[1][2] + Backoffs[2][2] >= 2 + 4
C8_Witness == f_max = 3 /\ f_pc = "returned" /\ Len(Gets) = 3 /\ Len(Backoffs) = 2

\* C9: the call issues GETs until the first 200 or until max_retries GETs were
\* made: it returns the first 200 with no GET after it, and it returns None
\* exactly when max_retries GETs all ended in a non-200 or a RequestException.
C9_RetryUntilFirst200 ==
    /\ Len(Gets) <= f_max
    /\ \A i \in 1..(Len(Gets) - 1) : Retryable(Gets[i])
    /\ f_pc = "returned" =>
         /\ Len(Gets) >= 1 /\ ~Failed200(Gets[Len(Gets)])
         /\ f_result # NoResponse /\ f_result.status = 200
    /\ f_pc # "returned" => f_result = NoResponse
    /\ FetchEnded =>
         (f_pc = "none" <=>
            (Len(Gets) = f_max /\ \A i \in 1..Len(Gets) : Retryable(Gets[i])))
\* three attempts, a 503 and a RequestException among them, then None
C9_Witness ==
    /\ f_max = 3 /\ f_pc = "none" /\ Len(Gets) = 3
    /\ \E i \in 1..3 : Gets[i][2] = "request_exc"
    /\ \E i \in 1..3 : Gets[i][2] = "response"

\* C10: the task list has 5N tasks, every (star, page) with star in 1..5 and
\* page in 1..N exactly once, stars from 5 down to 1 and within a star pages
\* from 1 up to N; the tasks are submitted in that order.
C10_TaskGrid ==
    pc # "build" =>
        LET T == scrape_tasks
            N == max_pages_per_star
        IN  /\ Len(T) = 5 * N
            /\ \A s \in 1..5 : \A p \in 1..N : CountIn(T, <<s, p>>) = 1
            /\ \A i \in 1..Len(T) : T[i] = <<5 - ((i - 1) \div N), ((i - 1) % N) + 1>>
            /\ submitted <= Len(T)
            /\ taken <= submitted
C10_Witness == pc = "collect" /\ max_pages_per_star = 3 /\ submitted = 15

\* The reviews the site holds for the tasks of the run: the elements that parse
\* on the pages that come with a 200 and without a marker. Every run over the
\* same tasks and the same site has this set, whatever its schedule.
ExpectedReviews ==
    UNION { {ReviewData(scrape_tasks[t][1], scrape_tasks[t][2], i) :
                i \in {k \in 1..Len(site[t].elems) : site[t].elems[k] = "good"}} :
            t \in {u \in 1..Len(scrape_tasks) :
                      site[u].status = 200 /\ ~site[u].soft} }
\* the records of the run that builds every record within the clock's first second
TableAtFirstSecond == {r \o <<Strftime(0)>> : r \in ExpectedReviews}

\* C11: two runs over the same tasks and the same page contents that differ only
\* in the order in which the tasks are scheduled and complete return the same
\* multiset of records: the table of any completed run is, as a multiset, the
\* table of the run in which every record is built within the first second.
C11_SameRecordsInAnyOrder ==
    Completed =>
        /\ Len(df) = Cardinality(TableAtFirstSecond)
        /\ Range(df) = TableAtFirstSecond

\* C11, amended: two such runs return the same multiset of records apart from
\* extracted_date: the table of any completed run holds each review of the site
\* exactly once, whatever the order of the tasks, and each record's
\* extracted_date is a second of the run.
C11_SameReviewsInAnyOrder ==
    /\ \A i \in 1..Len(put_log) : put_log[i][4] \in 0..Strftime(x_now)
    /\ Completed =>
         /\ Len(df) = Cardinality(ExpectedReviews)
         /\ {Untimed(df[i]) : i \in 1..Len(df)} = ExpectedReviews
         /\ SameBag(df, put_log)
\* a run of two workers whose table is not in submission order and whose
\* records were built in different seconds
C11_Witness ==
    /\ Completed /\ max_threads = 2 /\ Len(df) >= 3
    /\ \E i \in 1..Len(df) : \E j \in 1..Len(df) : i < j /\ df[i][1] < df[j][1]
    /\ \E i \in 1..Len(df) : \E j \in 1..Len(df) : df[i][4] # df[j][4]
    /\ \E t \in 1..Len(scrape_tasks) : site[t].soft

\* the second call on the page has returned
BothCallsDone == x_pc = "returned" /\ x_call = 2 /\ Len(x_counts) = 2
\* what the first and the second call have put
FirstCallRecords == SubSeq(reviews_queue, 1, x_counts[1])
SecondCallRecords == SubSeq(reviews_queue, x_counts[1] + 1, Len(reviews_queue))
WithoutTimestamp(r) == [r EXCEPT !.extracted_date = 0]

\* C12: two calls of _extract_reviews_from_page on the same page content with the
\* same star filter put identical records, field for field, the capture
\* timestamp included.
C12_ExtractionIdempotent ==
    BothCallsDone => FirstCallRecords = SecondCallRecords

\* C12, amended: two calls on the same page content with the same star filter
\* return the same count and put as many records, pairwise identical in star
\* rating, title, text, date, verified flag and author; extracted_date is the
\* second of the clock at the loop turn that put the record, so it never goes
\* back from one record to the next, and the two calls agree in it too when the
\* clock stayed within one second.
C12_ExtractionIdempotentButTimestamp ==
    /\ \A i \in 1..(Len(reviews_queue) - 1) :
         reviews_queue[i].extracted_date <= reviews_queue[i + 1].extracted_date
    /\ \A i \in 1..Len(reviews_queue) :
         reviews_queue[i].extracted_date <= Strftime(x_now)
    /\ BothCallsDone =>
         /\ x_counts[1] = x_counts[2]
         /\ Len(reviews_queue) = x_counts[1] + x_counts[2]
         /\ \A i \in 1..x_counts[1] :
              WithoutTimestamp(FirstCallRecords[i]) =
                  WithoutTimestamp(SecondCallRecords[i])
         /\ Strftime(x_now) = Strftime(0) => FirstCallRecords = SecondCallRecords
\* a page of two elements, one of which raises, extracted twice, a second apart
C12_Witness ==
    /\ BothCallsDone
    /\ Len(x_page) = 2 /\ x_counts = <<1, 1>>
    /\ FirstCallRecords[1].extracted_date < SecondCallRecords[1].extracted_date
    /\ FirstCallRecords[1].title # <<>>

\* a run the canary check ended: no session, no canary response, or a canary
\* response with a soft-block marker
CanaryAborted == pc = "done" /\ exit_line \in {61, 68, 73}
\* what the caller is told after a completed run that captured no review
StatusOfEmptyRun == CallerStatus(<<>>)

\* C13: what scrape_reviews hands to its caller tells a run the canary check
\* aborted from a completed run with zero reviews: an aborted run is never
\* reported with the status of the completed empty run.
C13_AbortDistinctFromEmpty ==
    CanaryAborted => CallerStatus(df) # StatusOfEmptyRun
\* both outcomes happen: a completed run whose table is empty
CompletedEmpty == Completed /\ df = <<>> /\ CallerStatus(df) = StatusOfEmptyRun

\* no /dp/<id>, /product/<id> or /gp/product/<id> anywhere in the URL, <id> being
\* ten characters of [A-Z0-9]
NoPatternMatches(url) ==
    ~\E i \in 1..(Len(url) - 1) :
        url[i] \in {"dp", "product"} /\ url[i + 1] \in AsinSegments

\* C14: when the product URL matches none of the product-id patterns,
\* scrape_reviews returns an empty table at line 54 at once: no fetch call (not
\* even the canary's), no task, no worker, the counters, the semaphore and the
\* queue as the constructor left them.
C14_InvalidUrlFailsFast ==
    NoPatternMatches(product_url) =>
        \/ pc = "start" /\ exit_line = 0 /\ Constructed
        \/ /\ pc = "done" /\ exit_line = 54 /\ df = <<>>
           /\ fetch_calls = 0 /\ test_response = "unset" /\ canary_retry = 0
           /\ scrape_tasks = <<>> /\ submitted = 0 /\ taken = 0 /\ finished = 0
           /\ WorkersIdle /\ semaphore = max_threads
           /\ successful_requests = 0 /\ failed_requests = 0 /\ total_reviews = 0
           /\ reviews_queue = <<>> /\ put_log = <<>>
\* a URL with /dp/ in it but no product id after it has been turned away
C14_Witness ==
    /\ product_url = <<"dp", "b0abc">> /\ session = "session"
    /\ pc = "done" /\ exit_line = 54

\* C15: scrape_reviews never raises to its caller: whatever the canary fetch and
\* the tasks' fetches and extractions do, an exception of any type included,
\* the call ends by returning a table.
C15_NeverRaises == pc # "raised"
\* the exceptions of the tasks are kept from the caller (line 101): once the
\* canary check has passed, the call does not raise
TaskErrorsContained == test_response = "clean" => pc # "raised"

\* worker w is at the end of a task whose page came with a 200 and no marker and
\* held no review element
ZeroReviewPage(w) == wk[w].pc = "exit" /\ wk[w].kind = "ok" /\ wk[w].idx = 0

\* C16: a task whose page is fetched with a 200, holds no soft-block marker and
\* has no review element is a failed task: it has incremented the failure
\* counter and not the success counter, and it has added no review.
C16_ZeroReviewPageIsFailure ==
    \A w \in Workers :
        ZeroReviewPage(w) =>
            /\ wk[w].f_inc = 1
            /\ wk[w].s_inc = 0
            /\ wk[w].count = 0
\* what the code does with such a page: a success is counted, no failure, no
\* review, and the run goes on
ZeroReviewPageCountsAsSuccess ==
    \A w \in Workers :
        ZeroReviewPage(w) =>
            /\ wk[w].f_inc = 0 /\ wk[w].s_inc = 1 /\ wk[w].count = 0
            /\ pc \in {"submit", "collect"}

\* C17: a task whose fetch returned a 200 with a soft-block marker in the body
\* is failed at once. It never goes back to the fetch (every GET of a task is
\* made in one of its fetch steps), it executes the increment of the failure
\* counter once and that of the success counter never, and it extracts and puts
\* nothing, also when the body holds review elements.
C17_SoftBlockedTaskFailsAtOnce ==
    \A w \in Workers :
        wk[w].kind = "soft" =>
            /\ wk[w].pc \in {"fail_load", "fail_store", "exit"}
            /\ wk[w].retry = 0
            /\ wk[w].f_inc = IF wk[w].pc = "exit" THEN 1 ELSE 0
            /\ wk[w].s_inc = 0
            /\ wk[w].idx = 0 /\ wk[w].count = 0
            /\ RecordsOf(put_log, scrape_tasks[wk[w].task]) = 0
\* a soft-blocked task at its end whose page held a review that would parse
C17_Witness ==
    \E w \in Workers :
        /\ wk[w].kind = "soft" /\ wk[w].pc = "exit"
        /\ wk[w].elems = <<"good">>

\* every task of the list has been taken and has ended
AllTasksFinished ==
    /\ scrape_tasks # <<>>
    /\ submitted = Len(scrape_tasks)
    /\ finished = Len(scrape_tasks)

\* C18: a task holds one unit of the semaphore from before its first fetch step
\* to its end, however it ends (no response, soft block, normal return,
\* exception): a worker at the delay or in the fetch has taken a unit, and once
\* every task has finished no worker holds one and the semaphore is back at
\* max_threads.
C18_SemaphoreReleasedOnEveryPath ==
    /\ semaphore \in 0..max_threads
    /\ \A w \in Workers :
         wk[w].pc \in {"delay", "fetch"} => semaphore <= max_threads - 1
    /\ AllTasksFinished =>
         /\ WorkersIdle
         /\ semaphore = max_threads
\* all tasks have finished, and among them were one that got no response, one
\* that was soft-blocked, one that returned normally and one that raised
C18_Witness ==
    /\ AllTasksFinished
    /\ \A k \in TallyKinds : tally[k] >= 1
    /\ semaphore = max_threads

\* the main thread is in the drain loop or past it
DrainStarted == pc = "drain" \/ Completed

\* C19: the queue is drained once, after every submitted task has finished: the
\* drain loop is entered only from as_completed and never again, while or after
\* it runs every task has finished and no worker is in a task, so no record is
\* put any more; when scrape_reviews returns the queue is empty and the table
\* holds every record that was put.
C19_DrainOnceAfterAllTasks ==
    /\ [](DrainStarted => (AllTasksFinished /\ WorkersIdle /\ taken = submitted))
    /\ [][DrainStarted => (put_log' = put_log /\ wk' = wk)]_vars
    /\ [][(pc' = "drain" /\ pc # "drain") => (pc = "collect" /\ reviews' = <<>>)]_vars
    /\ [][pc = "done" => pc' = "done"]_vars
    /\ [](Completed =>
            /\ reviews_queue = <<>>
            /\ Len(df) = Len(put_log)
            /\ \A i \in 1..Len(put_log) : CountIn(df, put_log[i]) = 1)
\* a run of two workers has returned a table of three records or more
C19_Witness == Completed /\ max_threads = 2 /\ Len(put_log) >= 3 /\ Len(df) >= 3

\* C20: after a run the canary check did not abort, total_reviews is the number
\* of rows of the returned table.
C20_TotalReviewsIsRowCount == Completed => total_reviews = Len(df)
\* what the code keeps in total_reviews: the 0 of the constructor
TotalReviewsNeverSet == total_reviews = 0

\* C21: make_request_with_backoff waits only between attempts: a call that has
\* ended did not end on a backoff wait, and a call whose max_retries attempts
\* all failed has made max_retries - 1 backoff waits.
C21_BackoffOnlyBetweenAttempts ==
    FetchEnded =>
        /\ f_log # <<>> => f_log[Len(f_log)][1] # "backoff"
        /\ (f_pc = "none" /\ f_max >= 1) => Len(Backoffs) = f_max - 1
\* what the code does: a backoff wait after every failed attempt, the last one
\* included, so as many waits as failed attempts
BackoffAfterEveryFailure ==
    FetchEnded =>
        /\ Len(Backoffs) = Len(SelectSeq(Gets, Retryable))
        /\ f_pc = "none" => (Len(Backoffs) = f_max /\ Len(Gets) = f_max)

\* the tasks that have finished, however they ended
TasksEnded == tally["none"] + tally["soft"] + tally["ok"] + tally["raised"]

\* C22: once the canary check has passed, a task that fails or raises stops
\* neither its siblings nor the run: scrape_reviews does not raise, something
\* can always go on until it has returned, it returns only at line 125 and only
\* when all 5N tasks were taken and have finished, and the table then holds every
\* record the tasks have put, as many as their returned counts add up to.
C22_SiblingTasksIsolated ==
    test_response = "clean" =>
        /\ pc # "raised"
        /\ pc # "done" => ENABLED Next
        /\ TasksEnded = finished
        /\ pc = "done" =>
             /\ exit_line = 125
             /\ Len(scrape_tasks) = TopStar * max_pages_per_star
             /\ taken = Len(scrape_tasks)
             /\ finished = Len(scrape_tasks)
             /\ SameBag(df, put_log)
             /\ Len(df) = returned_sum
\* two tasks raised, one got no response, and the reviews of two others are in
\* the table
C22_Witness ==
    /\ Completed
    /\ tally["raised"] = 2 /\ tally["none"] = 1 /\ tally["ok"] = 2
    /\ Len(df) = 2

\* C23: when every GET and every sleep ends and the threads are scheduled
\* fairly, every call of scrape_reviews eventually returns.
C23_EventuallyReturns == <>(pc = "done")
\* what holds under that scheduling: every call ends, by returning or by raising
\* out of the canary fetch, and a worker that has taken a task gets through the
\* semaphore and finishes it
EventuallyEnds ==
    /\ <>(pc \in {"done", "raised"})
    /\ \A w \in 1..MaxThreads :
         (IF w \in Workers THEN wk[w].pc = "acquire" ELSE FALSE)
             ~> (IF w \in Workers THEN wk[w].pc = "idle" ELSE FALSE)

\* the elements of a page that parse, in page order
ParsingElements(page) == SelectSeq(page, LAMBDA el : ~el.raises)

\* C24: an exception while one review element is parsed skips that element
\* only. In the first call on a page, after each loop turn the count and the
\* queue's length are the number of parsing elements passed so far, and when the
\* call has returned it has gone through the whole page: the returned count is
\* the number of records put, one for every element that parses, in page order
\* and with that element's fields.
C24_ParseErrorSkipsOneReview ==
    x_call = 1 =>
        /\ x_pc = "loop" =>
             /\ x_count = Len(ParsingElements(SubSeq(x_page, 1, x_i - 1)))
             /\ Len(reviews_queue) = x_count
        /\ x_pc = "returned" =>
             LET parsed == ParsingElements(x_page)
             IN  /\ x_counts = <<Len(parsed)>>
                 /\ Len(reviews_queue) = Len(parsed)
                 /\ \A k \in 1..Len(parsed) :
                      WithoutTimestamp(reviews_queue[k]) =
                          WithoutTimestamp(ReviewRecordOf(parsed[k], x_star, 0))
\* the first element of the page raised and the review after it was put
C24_Witness ==
    /\ x_call = 1 /\ x_pc = "returned"
    /\ x_page = <<ElRaising, ElFull>>
    /\ x_counts = <<1>> /\ Len(reviews_queue) = 1
    /\ reviews_queue[1].verified

\* the first text of a sequence of texts that is not empty, the empty text when
\* there is none
RECURSIVE FirstNonEmpty(_)
FirstNonEmpty(texts) ==
    IF texts = <<>> THEN <<>>
    ELSE IF Head(texts) # <<>> THEN Head(texts)
    ELSE FirstNonEmpty(Tail(texts))
\* what each selector of a chain yields on the page: the number in its
\* element's text (price, star rating), its element's cleaned text (brand), the
\* empty text when the element is missing
PriceMatches ==
    [k \in 1..Len(p_page.price) |->
        IF p_page.price[k].found
        THEN NumberSearch(Strip(p_page.price[k].text), Digits \cup {","}, TRUE)
        ELSE <<>>]
BrandMatches ==
    [k \in 1..Len(p_page.brand) |->
        IF p_page.brand[k].found THEN CleanBrand(Strip(p_page.brand[k].text))
        ELSE <<>>]
StarMatches ==
    [k \in 1..Len(p_page.star) |->
        IF p_page.star[k].found THEN NumberSearch(p_page.star[k].text, Digits, TRUE)
        ELSE <<>>]

\* C25: every selector fallback chain is evaluated in list order and the first
\* selector that yields a non-empty match gives the field its value; the default
\* is the value only when no selector of the chain yields a non-empty match.
C25_FirstNonEmptyMatchWins ==
    p_pc = "returned" =>
        /\ p_info.price =
             (IF FirstNonEmpty(PriceMatches) # <<>>
              THEN <<"Rs">> \o FirstNonEmpty(PriceMatches) ELSE NotFoundText)
        /\ p_info.brand = OrNotFound(FirstNonEmpty(BrandMatches))
        /\ p_info.star_rating = OrNotFound(FirstNonEmpty(StarMatches))
\* what the code does: price and star rating are as C25 says; the brand chain
\* ends at the first selector that finds an element, also when nothing is left
\* of its text
ChainsAsCoded ==
    p_pc = "returned" =>
        /\ p_info.price =
             (IF FirstNonEmpty(PriceMatches) # <<>>
              THEN <<"Rs">> \o FirstNonEmpty(PriceMatches) ELSE NotFoundText)
        /\ p_info.star_rating = OrNotFound(FirstNonEmpty(StarMatches))
        /\ \A k \in 1..Len(p_page.brand) :
             (p_page.brand[k].found /\ \A j \in 1..(k - 1) : ~p_page.brand[j].found)
                 => p_info.brand = OrNotFound(BrandMatches[k])
        /\ (\A k \in 1..Len(p_page.brand) : ~p_page.brand[k].found)
                 => p_info.brand = NotFoundText
\* the same for the title and the text of a review (SpecExtract): the fallback
\* selector is asked only when the first one finds no element
ReviewChainsFirstNonEmpty ==
    (x_call = 1 /\ x_pc = "returned") =>
        LET parsed == ParsingElements(x_page)
        IN  \A k \in 1..Len(parsed) :
              /\ reviews_queue[k].title =
                   FirstNonEmpty(<<TextOrEmpty(parsed[k].title_span),
                                   TextOrEmpty(parsed[k].title_hook)>>)
              /\ reviews_queue[k].text =
                   FirstNonEmpty(<<TextOrEmpty(parsed[k].text_span),
                                   TextOrEmpty(parsed[k].text_hook)>>)

\* ---------------------------------------------------------------- C26
GetAttempts == {i \in 1..Len(f_log) : f_log[i][1] = "get"}

\* C26: in make_request_with_backoff every GET attempt, the first one
\* included, comes right after a jitter sleep of its own: the entry before
\* each GET in the call's history is a jitter sleep, so that no GET is issued
\* without a jitter sleep since the call started or since the previous GET,
\* and a call about to issue a GET has just slept.
C26_JitterBeforeEveryGet ==
    /\ \A i \in GetAttempts : i > 1 /\ f_log[i - 1] = <<"jitter">>
    /\ f_pc = "get" =>
         Len(f_log) >= 1 /\ f_log[Len(f_log)] = <<"jitter">>
    /\ Cardinality({i \in 1..Len(f_log) : f_log[i] = <<"jitter">>})
         = Cardinality(GetAttempts) + (IF f_pc = "get" THEN 1 ELSE 0)

\* A call that returned a response from its third GET, after two failures.
C26_Witness ==
    /\ f_pc = "returned"
    /\ Cardinality(GetAttempts) = 3
    /\ f_log[1] = <<"jitter">>

\* ---------------------------------------------------------------- C27
\* the task of worker w goes on to call make_request_with_backoff
CallsFetcher(w) == wk[w].pc # "fetch" /\ wk'[w].pc = "fetch"

\* C27: a task sleeps the additional delay (2.0 s plus one jittered delay)
\* before it calls the fetcher if and only if its page number is 1 or 2,
\* whatever its star rating: a task of page 1 or 2 goes from the semaphore to
\* the delay and from the delay to the fetcher, a task of page 3 or later goes
\* from the semaphore straight to the fetcher.
C27_ExtraDelayIffFirstTwoPages ==
    [][\A w \in Workers :
         /\ CallsFetcher(w) =>
              IF PageOf(w) \in {1, 2} THEN wk[w].pc = "delay"
              ELSE wk[w].pc = "acquire"
         /\ wk[w].pc = "acquire" /\ wk'[w].pc # "acquire" =>
              IF PageOf(w) \in {1, 2} THEN wk'[w].pc = "delay"
              ELSE wk'[w].pc = "fetch"
         /\ wk[w].pc = "delay" /\ wk'[w].pc # "delay" => wk'[w].pc = "fetch"]_vars

\* The task of page 3 of the last star rating in the fetcher, the semaphore
\* taken, the tasks of pages 1 and 2 of that star rating behind it.
C27_Witness ==
    /\ max_pages_per_star = MaxDelayPages
    /\ taken = Len(scrape_tasks)
    /\ finished = taken - 1
    /\ \E w \in Workers :
         /\ wk[w].pc = "fetch" /\ StarOf(w) = 1 /\ PageOf(w) = 3
         /\ semaphore = 0

\* ---------------------------------------------------------------- C28
\* the workers that have taken a task and stand before "with self.semaphore"
AtSemaphore == {w \in Workers : wk[w].pc = "acquire"}

\* C28: with a single run in progress no worker ever blocks on the admission
\* semaphore: the pool and the semaphore both have max_threads units, so that
\* whenever workers have started a task and stand before the semaphore, it has
\* a free unit for each of them.
C28_NoWorkerBlocksOnSemaphore ==
    /\ \A w \in AtSemaphore : CanAcquire(semaphore)
    /\ Cardinality(AtSemaphore) <= semaphore
    /\ Cardinality(Workers) = max_threads

\* One worker in the fetcher, the other before the semaphore, which has its
\* last unit left.
C28_Witness ==
    /\ max_threads = 2
    /\ semaphore = 1
    /\ \E w, v \in Workers : wk[w].pc = "fetch" /\ wk[v].pc = "acquire"

\* ---------------------------------------------------------------- C29
\* the tasks of this call that ended in make_request_with_backoff's None, in a
\* soft block or in a page of reviews: the tasks the code counts
CountedTasks == tally["none"] + tally["soft"] + tally["ok"]

\* C29: run statistics are per run: after any call of scrape_reviews on an
\* instance has returned from its tasks, a second call on the same instance
\* included, successful_requests + failed_requests is the number of tasks of
\* that call, and the returned table holds the records captured during that
\* call and no others. (Stated for the calls none of whose tasks ended in an
\* exception, which no counter records.)
C29_StatisticsArePerRun ==
    (Completed /\ tally["raised"] = 0) =>
        /\ successful_requests + failed_requests = Len(scrape_tasks)
        /\ SameBag(df, put_log)

\* What the code does instead: the counters count from the construction of
\* the instance, so that a call adds its tasks to what the calls before it
\* left; the table is per call, the queue being empty when a call returns.
CountersAccumulate ==
    /\ pc = "start" => successful_requests + failed_requests = carried
    /\ Completed =>
         /\ successful_requests + failed_requests = carried + CountedTasks
         /\ SameBag(df, put_log)
    /\ pc = "done" => reviews_queue = <<>>
    /\ calls = 1 => carried = 0

\* A second call that returned with its five tasks counted on top of the five
\* of the first.
SecondCallCountsBoth ==
    /\ calls = 2
    /\ Completed
    /\ tally["raised"] = 0
    /\ Len(scrape_tasks) = TopStar
    /\ carried = TopStar
    /\ successful_requests + failed_requests = 2 * TopStar

\* ---------------------------------------------------------------- C30
\* the last run of the script was a login confirmation that called save_cookies
Confirmed == l_event \in {"confirm_saved", "confirm_failed"}
\* what "Scrape Reviews" and the login status test (lines 116, 193)
LoggedIn == HasCookies(st_session_state)
\* the browser is quit, driver is None and browser_open is false
BrowserGone ==
    /\ chrome.window # "open"
    /\ st_session_state.driver = None
    /\ st_session_state.browser_open = FALSE

\* C30: in the login flow the user is marked as logged in (amazon_cookies set
\* in the session state, which is what enables "Scrape Reviews") only when a
\* login confirmation has actually saved the browser's cookies; after a
\* confirmation whose save failed a user who had no saved cookies is still not
\* logged in; and after a confirmation, saved or not, the browser is quit,
\* driver is None and browser_open is false.
C30_LoggedInOnlyWhenCookiesSaved ==
    /\ LoggedIn => l_saved
    /\ (l_event = "confirm_failed" /\ ~l_saved) => ~LoggedIn
    /\ Confirmed => BrowserGone

\* What the code does: save_cookies answers a failure with [], which the
\* handler stores like any list of cookies, so that the user is logged in after
\* every confirmation; the browser is closed on both paths, and "Scrape
\* Reviews" starts exactly when amazon_cookies is set.
LoggedInAfterAnyConfirmation ==
    /\ Confirmed => LoggedIn /\ BrowserGone
    /\ l_event = "confirm_failed" =>
         st_session_state["amazon_cookies"] = <<>>
    /\ l_event = "confirm_saved" =>
         /\ st_session_state["amazon_cookies"] # <<>>
         /\ cookies_json =
              [state |-> "written",
               cookies |-> st_session_state["amazon_cookies"]]
    /\ st_session_state.browser_open <=> st_session_state.driver # None
    /\ st_session_state.browser_open => chrome.window \in {"open", "closed"}
    /\ l_event = "scrape_started" => LoggedIn
    /\ l_event = "scrape_refused" => ~LoggedIn
    /\ l_event # "confirm_no_driver"

\* The user closed the Chrome window and confirmed: nothing was saved, and
\* "Scrape Reviews" started with an empty list of cookies.
ScrapeStartedWithoutSavedCookies ==
    /\ l_event = "scrape_started"
    /\ ~l_saved
    /\ st_session_state["amazon_cookies"] = <<>>
    /\ cookies_json = NoFile

====
